---- MODULE Spec2Model ----
(***************************************************************************)
(* A model of afsmon: the parsers of the AFS command outputs, the poll of  *)
(* one fileserver (FileServerStats.get_stats) and the command line driver  *)
(* (AFSMonCmd.main).                                                       *)
(*                                                                         *)
(* Representation.                                                         *)
(*  - The output of a command is a record [rc, ascii, text]: the exit code *)
(*    (non-zero makes subprocess.check_output raise CalledProcessError),   *)
(*    whether the bytes decode as ASCII, and the text.  The text of 'vos   *)
(*    listvol' is kept as it is, the sequence of its characters; the text  *)
(*    of another command is kept as what the regular expressions of the    *)
(*    code can see of it: a sequence of lines, each a record of the tokens *)
(*    the patterns look for.                                               *)
(*  - A string of a character text is the sequence of its characters, a    *)
(*    number in it the characters of its digits; int() is the operator     *)
(*    IntOf.  Elsewhere a number in a text is the sequence of its decimal  *)
(*    digits, and int() is the operator ToInt.                             *)
(*  - Python's None is the empty sequence and a set value v is <<v>>.      *)
(*  - A hostname or a line of addresses is the sequence of its pieces,     *)
(*    "." and " " being pieces of their own: "afs01.example.org" is        *)
(*    <<"afs01", ".", "example", ".", "org">>.                             *)
(*  - A percentage (a float rounded to two places) is kept in hundredths   *)
(*    of a percent: 34.54 is 3454.                                         *)
(*  - An exception is its class name; a method is an operator from the     *)
(*    object and the command output to [self, exc].                        *)
(***************************************************************************)
EXTENDS Integers, Sequences, FiniteSets, TLC

VARIABLES
    self,         \* the FileServerStats object being polled (its attributes)
    pc,           \* position inside get_stats of that object
    exc,          \* the exception get_stats raised, None when it has not
    cmdlog,       \* the commands issued so far, with what each returned
    polls,        \* how many times get_stats was called on the object
    mark,         \* the length of cmdlog when get_stats was last called
    mpc,          \* position inside AFSMonCmd.main
    config,       \* the configuration main reads
    fs_addrs,     \* main: the addresses to poll, in order
    next_addr,    \* main: the index in fs_addrs of the next address of the loop
    fileservers,  \* AFSMonCmd.fileservers
    reported,     \* what the subcommand printed or sent
    mret,         \* what main returned, None when it has not (or returned None)
    mexc          \* the exception that left main, None when none did

objvars == <<self, pc, exc, polls, mark>>

mainvars == <<mpc, config, fs_addrs, next_addr, fileservers, reported, mret, mexc>>

vars == <<self, pc, exc, polls, mark, cmdlog, mpc, config, fs_addrs, next_addr, fileservers,
          reported, mret, mexc>>

(***************************************************************************)
(* Python values                                                           *)
(***************************************************************************)
None == <<>>

Some(v) == <<v>>

Min(a, b) == IF a < b THEN a ELSE b

RECURSIVE ToInt(_)
ToInt(ds) == IF ds = <<>> THEN 0 ELSE 10 * ToInt(SubSeq(ds, 1, Len(ds) - 1)) + ds[Len(ds)]

(***************************************************************************)
(* Python floats.  float(used) / float(total) * 100 is two operations on   *)
(* doubles, each rounded to the nearest double; numbers too long for an    *)
(* integer of the model are kept as their binary digits.                   *)
(***************************************************************************)
\* A natural number below 2^31 as w binary digits, the most significant first.
BitsOfWidth(n, w) == IF w = 0 THEN <<>> ELSE [i \in 1..w |-> (n \div 2^(w - i)) % 2]

BitsOf(n) == BitsOfWidth(n, Cardinality({k \in 0..30 : 2^k <= n}))

StripZeros(b) ==
    IF \A i \in 1..Len(b) : b[i] = 0 THEN <<>>
    ELSE SubSeq(b, CHOOSE i \in 1..Len(b) : b[i] = 1 /\ \A j \in 1..(i - 1) : b[j] = 0, Len(b))

Zeros(k) == IF k = 0 THEN <<>> ELSE [i \in 1..k |-> 0]

\* The binary digits b and one more.
Increment(b) ==
    IF \A i \in 1..Len(b) : b[i] = 1 THEN <<1>> \o Zeros(Len(b))
    ELSE LET p == CHOOSE i \in 1..Len(b) : b[i] = 0 /\ \A j \in (i + 1)..Len(b) : b[j] = 1
         IN  [i \in 1..Len(b) |-> IF i < p THEN b[i] ELSE IF i = p THEN 1 ELSE 0]

\* The digits of a limb, and the number a limb of digits stands for.
LimbBits == 12

RECURSIVE LimbValue(_)
LimbValue(b) == IF b = <<>> THEN 0 ELSE 2 * LimbValue(SubSeq(b, 1, Len(b) - 1)) + b[Len(b)]

\* b * c + carry for small naturals c and carry, a limb at a time from the right.
RECURSIVE MulAdd(_, _, _)
MulAdd(b, c, carry) ==
    IF Len(b) <= LimbBits THEN BitsOf(LimbValue(b) * c + carry)
    ELSE LET p == LimbValue(SubSeq(b, Len(b) - LimbBits + 1, Len(b))) * c + carry
         IN  MulAdd(SubSeq(b, 1, Len(b) - LimbBits), c, p \div 2^LimbBits)
                 \o BitsOfWidth(p % 2^LimbBits, LimbBits)

MulBits(b, c) == MulAdd(b, c, 0)

\* -1, 0, 1 as x is less than, equal to, greater than y, neither with leading
\* zeros.
CompareStripped(x, y) ==
    IF Len(x) # Len(y) THEN (IF Len(x) < Len(y) THEN -1 ELSE 1)
    ELSE IF x = y THEN 0
    ELSE LET i == CHOOSE i \in 1..Len(x) : x[i] # y[i] /\ \A j \in 1..(i - 1) : x[j] = y[j]
         IN  IF x[i] < y[i] THEN -1 ELSE 1

\* -1, 0, 1 as a is less than, equal to, greater than b.
CompareBits(a, b) == CompareStripped(StripZeros(a), StripZeros(b))

\* The bits of a double's significand.
Mantissa == 53

\* A positive double is [m, e]: the value of the binary digits m times 2^e.
\* A significand that rounding up made one digit longer loses its last digit.
Normalised(m, e) ==
    IF Len(m) > Mantissa THEN [m |-> SubSeq(m, 1, Mantissa), e |-> e + 1]
    ELSE [m |-> m, e |-> e]

\* Round to nearest, a tie going to the even significand: keep goes up when
\* the digits cut off are more than half a unit, or half and keep is odd.
RoundsUp(keep, tail) ==
    /\ tail[1] = 1
    /\ \/ \E j \in 2..Len(tail) : tail[j] = 1
       \/ keep[Mantissa] = 1

Rounded(keep, tail, e) ==
    Normalised(IF RoundsUp(keep, tail) THEN Increment(keep) ELSE keep, e)

\* The digits s, the first of them 1, times 2^e as the nearest double.
RoundStripped(s, e) ==
    IF Len(s) <= Mantissa THEN [m |-> s, e |-> e]
    ELSE Rounded(SubSeq(s, 1, Mantissa), SubSeq(s, Mantissa + 1, Len(s)),
                 e + Len(s) - Mantissa)

\* The digits b times 2^e as the nearest double.
RoundToDouble(b, e) == RoundStripped(StripZeros(b), e)

\* The next k binary digits of r / d (r < d), and what is left.
RECURSIVE LimbOfFraction(_, _, _)
LimbOfFraction(r, d, k) ==
    IF k = 0 THEN [bits |-> <<>>, rem |-> r]
    ELSE LET bit == IF r >= d - r THEN 1 ELSE 0
             rest == LimbOfFraction(IF bit = 1 THEN r - (d - r) ELSE r + r, d, k - 1)
         IN  [bits |-> <<bit>> \o rest.bits, rem |-> rest.rem]

\* The same for as many limbs, a limb at a time.
RECURSIVE FractionBits(_, _, _)
FractionBits(r, d, limbs) ==
    IF limbs = 0 THEN [bits |-> <<>>, rem |-> r]
    ELSE LET first == LimbOfFraction(r, d, LimbBits)
             rest == FractionBits(first.rem, d, limbs - 1)
         IN  [bits |-> first.bits \o rest.bits, rem |-> rest.rem]

\* The limbs of a quotient's fraction that hold a significand and two digits
\* more, wherever in a fraction above 2^-31 the significand begins.
FractionLimbs == 8

\* The quotient with whole part q and fraction f as the nearest double: its
\* digits as far as a significand reaches and beyond, and one more that is set
\* when digits other than 0 follow (which rounds as the exact quotient does).
QuotientToDouble(q, f) ==
    RoundToDouble(BitsOf(q) \o f.bits \o <<IF f.rem # 0 THEN 1 ELSE 0>>,
                  -(FractionLimbs * LimbBits + 1))

\* float(n) / float(d) for naturals 0 < n, d < 2^31.
FloatDiv(n, d) == QuotientToDouble(n \div d, FractionBits(n % d, d, FractionLimbs))

\* x * 100 for a double x.
FloatMul100(x) == RoundToDouble(MulBits(x.m, 100), x.e)

\* -1, 0, 1 as the double x is less than, equal to, greater than k / 200:
\* x.m * 200 * 2^x.e against k, the side with the negative exponent of 2
\* multiplied out.
CompareHalfHundredth(x, k) ==
    CompareBits(MulBits(x.m, 200) \o Zeros(IF x.e > 0 THEN x.e ELSE 0),
                BitsOf(k) \o Zeros(IF x.e < 0 THEN -x.e ELSE 0))

\* Twice the quotient and remainder h of a division by d.
Doubled(h, d) ==
    IF h.rem >= d - h.rem THEN [q |-> 2 * h.q + 1, rem |-> h.rem - (d - h.rem)]
    ELSE [q |-> 2 * h.q, rem |-> h.rem + h.rem]

\* The quotient and remainder t of a division by d after r (r < d) is added
\* to what was divided.
Added(t, r, d) ==
    IF t.rem >= d - r THEN [q |-> t.q + 1, rem |-> t.rem - (d - r)]
    ELSE [q |-> t.q, rem |-> t.rem + r]

\* r * c by d (r < d) for a small natural c, as quotient and remainder, the
\* product being too long for an integer of the model: by halving c.
RECURSIVE TimesOver(_, _, _)
TimesOver(r, c, d) ==
    IF c = 0 THEN [q |-> 0, rem |-> 0]
    ELSE IF c % 2 = 0 THEN Doubled(TimesOver(r, c \div 2, d), d)
    ELSE Added(Doubled(TimesOver(r, c \div 2, d), d), r, d)

\* The largest integer of the model: 2^31 - 1.
MaxInt == 2147483647

\* The quotient and remainder frac with whole more added to the quotient.
WithWhole(whole, frac) == [q |-> whole + frac.q, rem |-> frac.rem]

\* a * 10000 by d for naturals a and d > 0, as quotient and remainder: the
\* quotient a / d to four decimal places and what is left of it.
TenThousandths(a, d) ==
    IF a <= MaxInt \div 10000
    THEN [q |-> (a * 10000) \div d, rem |-> (a * 10000) % d]
    ELSE WithWhole((a \div d) * 10000, TimesOver(a % d, 10000, d))

\* The hundredth nearest to a double that lies between the hundredths h and
\* h + 1 and is below (c < 0), above (c > 0) or at (c = 0) their middle; the
\* middle goes to the even hundredth.
Nearest(h, c) ==
    IF c < 0 THEN h
    ELSE IF c > 0 THEN h + 1
    ELSE IF h % 2 = 0 THEN h ELSE h + 1

\* Where the double float(a) / float(d) * 100 lies about the middle of the two
\* hundredths around it.  The double differs from the exact quotient by far
\* less than the quotient differs from the middle of two hundredths, unless
\* the quotient is such a middle: then the double decides.
Side(exact, a, d) ==
    IF exact.rem # d - exact.rem THEN (IF exact.rem < d - exact.rem THEN -1 ELSE 1)
    ELSE CompareHalfHundredth(FloatMul100(FloatDiv(a, d)), 2 * exact.q + 1)

RoundHundredths(exact, a, d) == Nearest(exact.q, Side(exact, a, d))

Abs(n) == IF n < 0 THEN -n ELSE n

\* round(float(n) / float(d) * 100, 2) in hundredths of a percent, d > 0.
\* round() gives the hundredth nearest to the double it is given.
Round2(n, d) ==
    (IF n < 0 THEN -1 ELSE 1) * RoundHundredths(TenThousandths(Abs(n), d), Abs(n), d)

(***************************************************************************)
(* FileServerStatus                                                        *)
(***************************************************************************)
FileServerStatus == {"NORMAL", "TEMPORARY_DISABLED", "DISABLED", "UNKNOWN", "NO_CONNECTION"}

\* The attribute lookup FileServerStatus.<name>: the member, or AttributeError.
StatusMember(name) ==
    IF name \in FileServerStatus
    THEN [value |-> name, exc |-> None]
    ELSE [value |-> "<unset>", exc |-> Some("AttributeError")]

(***************************************************************************)
(* AFS timestamps: "Tue Nov  2 03:35:15 2016" is the phrase                *)
(* [wd |-> <<"T", "u", "e">>, mon |-> <<"N", "o", "v">>, day |-> <<2>>,    *)
(*  hh |-> <<0, 3>>, mm |-> <<3, 5>>, ss |-> <<1, 5>>,                     *)
(*  year |-> <<2, 0, 1, 6>>]: words are their letters, numbers their       *)
(* decimal digits.                                                         *)
(***************************************************************************)
UpperCase == <<"A", "B", "C", "D", "E", "F", "G", "H", "I", "J", "K", "L", "M",
               "N", "O", "P", "Q", "R", "S", "T", "U", "V", "W", "X", "Y", "Z">>

LowerCase == <<"a", "b", "c", "d", "e", "f", "g", "h", "i", "j", "k", "l", "m",
               "n", "o", "p", "q", "r", "s", "t", "u", "v", "w", "x", "y", "z">>

\* str.lower() of a word.
Lower(word) ==
    [i \in 1..Len(word) |->
        IF \E k \in 1..26 : UpperCase[k] = word[i]
        THEN LowerCase[CHOOSE k \in 1..26 : UpperCase[k] = word[i]]
        ELSE word[i]]

\* The abbreviated day and month names strptime knows (the C locale), in the
\* lower case it compares them in.
Weekdays == <<<<"m", "o", "n">>, <<"t", "u", "e">>, <<"w", "e", "d">>, <<"t", "h", "u">>,
              <<"f", "r", "i">>, <<"s", "a", "t">>, <<"s", "u", "n">>>>

Months == <<<<"j", "a", "n">>, <<"f", "e", "b">>, <<"m", "a", "r">>, <<"a", "p", "r">>,
            <<"m", "a", "y">>, <<"j", "u", "n">>, <<"j", "u", "l">>, <<"a", "u", "g">>,
            <<"s", "e", "p">>, <<"o", "c", "t">>, <<"n", "o", "v">>, <<"d", "e", "c">>>>

\* The place of a word among names, 0 when it is none of them.
IndexOf(names, word) ==
    IF \E i \in 1..Len(names) : names[i] = word
    THEN CHOOSE i \in 1..Len(names) : names[i] = word
    ELSE 0

\* %b: the number of the month a word names in any case, 0 when it names none.
MonthNumber(name) == IndexOf(Months, Lower(name))

IsLeap(y) == (y % 4 = 0 /\ y % 100 # 0) \/ y % 400 = 0

DaysInMonth(y, m) ==
    IF m = 2 THEN (IF IsLeap(y) THEN 29 ELSE 28)
    ELSE IF m \in {4, 6, 9, 11} THEN 30 ELSE 31

\* AFS_DATE_REGEX: \w+ \w+\s+(\d{1,2}) \d+:\d+:\d+ \d+
AFS_DATE_REGEX(p) ==
    /\ p.wd # <<>> /\ p.mon # <<>>
    /\ Len(p.day) \in 1..2
    /\ p.hh # <<>> /\ p.mm # <<>> /\ p.ss # <<>> /\ p.year # <<>>

\* The numbers the fields of a phrase stand for.
Fields(p) ==
    [year |-> ToInt(p.year), month |-> MonthNumber(p.mon), day |-> ToInt(p.day),
     hour |-> ToInt(p.hh), minute |-> ToInt(p.mm), second |-> ToInt(p.ss)]

\* What '%a %b %d %H:%M:%S %Y' takes of a phrase with the numbers v: %a and %b
\* an abbreviated name in any case, %d, %H, %M and %S one or two digits, %Y
\* four.  The weekday is parsed and not compared with the date.
Accepted(p, v) ==
    /\ IndexOf(Weekdays, Lower(p.wd)) # 0
    /\ v.month # 0
    /\ Len(p.year) = 4 /\ v.year >= 1
    /\ Len(p.day) \in 1..2 /\ v.day \in 1..DaysInMonth(v.year, v.month)
    /\ Len(p.hh) \in 1..2 /\ v.hour <= 23
    /\ Len(p.mm) \in 1..2 /\ v.minute <= 59
    /\ Len(p.ss) \in 1..2 /\ v.second <= 59

DateTimeOf(p, v) ==
    IF Accepted(p, v) THEN [value |-> v, exc |-> None]
    ELSE [value |-> None, exc |-> Some("ValueError")]

\* datetime.strptime(text, AFS_DATE_STRPTIME)
Strptime(p) == DateTimeOf(p, Fields(p))

\* Days since 1970-01-01 of a calendar date (proleptic Gregorian).
DaysFromCivil(y, m, d) ==
    LET yy == IF m <= 2 THEN y - 1 ELSE y
        era == yy \div 400
        yoe == yy - era * 400
        mp == (m + 9) % 12
        doy == (153 * mp + 2) \div 5 + d - 1
        doe == yoe * 365 + yoe \div 4 - yoe \div 100 + doy
    IN  era * 146097 + doe - 719468

Seconds(dt) == DaysFromCivil(dt.year, dt.month, dt.day) * 86400
               + dt.hour * 3600 + dt.minute * 60 + dt.second

\* datetime - datetime: a timedelta, kept in seconds.
TimeDelta(a, b) == Seconds(a) - Seconds(b)

(***************************************************************************)
(* Regular expressions over a text.  A match in progress is the sequence   *)
(* of the places it has passed: where it started, then the place after     *)
(* each part of the pattern it has matched so far; <<>> is a match that    *)
(* failed.  In the patterns of the code a repetition is always followed by *)
(* a character outside its class, so that only the longest run can match.  *)
(***************************************************************************)
\* \s of a str pattern on ASCII text, which is also what str.strip() removes:
\* the space, the tab, the line feed, the carriage return, the form feed, and
\* (as themselves, having no escape) the vertical tab 0x0b and the separators
\* 0x1c to 0x1f.
Whitespace == {" ", "\t", "\n", "\r", "\f", "", "", "", "", ""}

Digit == <<"0", "1", "2", "3", "4", "5", "6", "7", "8", "9">>

\* \d
DigitChars == {Digit[k] : k \in 1..10}

\* \w
WordChars == DigitChars \cup {"_"} \cup {UpperCase[k] : k \in 1..26}
             \cup {LowerCase[k] : k \in 1..26}

\* The decimal digits a string of digit characters spells.
DigitsOf(str) == [i \in 1..Len(str) |-> (CHOOSE k \in 1..10 : Digit[k] = str[i]) - 1]

\* int(str)
IntOf(str) == ToInt(DigitsOf(str))

\* The parts of a pattern: a literal, one character of a class ([OW], \s),
\* one or more of a class (\d+), one or more outside a class ([^\s]+), and
\* one to most of a class (\d{1,2}).
Literal(word) == [kind |-> "literal", word |-> word, class |-> {}, most |-> 0]

OneOf(class) == [kind |-> "one", word |-> <<>>, class |-> class, most |-> 0]

Many(class) == [kind |-> "many", word |-> <<>>, class |-> class, most |-> 0]

ManyNot(class) == [kind |-> "others", word |-> <<>>, class |-> class, most |-> 0]

UpTo(class, most) == [kind |-> "many", word |-> <<>>, class |-> class, most |-> most]

\* The text holds the word at place i.
At(text, i, word) ==
    /\ i + Len(word) - 1 <= Len(text)
    /\ SubSeq(text, i, i + Len(word) - 1) = word

\* The places of a character in a text.
Occurrences(text, c) == {i \in 1..Len(text) : text[i] = c}

\* 'word in text'
Contains(text, word) == \E i \in Occurrences(text, word[1]) : At(text, i, word)

\* The place after the longest run, from place i, of characters that are
\* (inside) or are not in the class.
RunEnd(text, i, class, inside) ==
    CHOOSE j \in i..(Len(text) + 1) :
        /\ j = Len(text) + 1 \/ (text[j] \in class) # inside
        /\ \A k \in i..(j - 1) : (text[k] \in class) = inside

\* The place a match is at.
Here(t) == t[Len(t)]

\* A run up to place j: it has a character at least, and no more than most
\* (when most is not 0).
Bounded(t, j, most) ==
    IF j = Here(t) \/ (most # 0 /\ j - Here(t) > most) THEN <<>> ELSE Append(t, j)

\* The match after one more part of the pattern.
Step(text, t, part) ==
    IF part.kind = "literal"
    THEN (IF At(text, Here(t), part.word) THEN Append(t, Here(t) + Len(part.word)) ELSE <<>>)
    ELSE IF part.kind = "one"
    THEN (IF Here(t) <= Len(text) /\ text[Here(t)] \in part.class
          THEN Append(t, Here(t) + 1) ELSE <<>>)
    ELSE Bounded(t, RunEnd(text, Here(t), part.class, part.kind = "many"), part.most)

\* The match after the parts of the pattern from the k-th on.
RECURSIVE Match(_, _, _, _)
Match(text, t, pattern, k) ==
    IF t = <<>> \/ k > Len(pattern) THEN t
    ELSE Match(text, Step(text, t, pattern[k]), pattern, k + 1)

\* The match that starts at the least of the places.
Leftmost(text, pattern, starts) ==
    IF starts = {} THEN <<>>
    ELSE Match(text, <<CHOOSE i \in starts : \A j \in starts : i <= j>>, pattern, 1)

\* re.search(pattern, text) for a pattern that starts with a literal: the
\* match that starts first, at a place that has the first character of the
\* literal.
Search(text, pattern) ==
    Leftmost(text, pattern,
             {i \in Occurrences(text, pattern[1].word[1]) :
                 Match(text, <<i>>, pattern, 1) # <<>>})

\* re.match(pattern, text), and re.search of a pattern that starts with ^.
MatchAtStart(text, pattern) == Match(text, <<1>>, pattern, 1)

\* What the text has between the k-th place of a match and the next.
Between(text, t, k) == SubSeq(text, t[k], t[k + 1] - 1)

(***************************************************************************)
(* FileServerStats                                                         *)
(***************************************************************************)
\* FileServerStats.__init__: status and table are not set by it.
FileServerStatsInit(hostname) ==
    [hostname |-> hostname,
     status |-> "<unset>",
     timestamp |-> None,
     restart |-> None,
     uptime |-> None,
     partitions |-> <<>>,
     volumes |-> <<>>,
     calls_waiting |-> None,
     idle_threads |-> None,
     table |-> None]

\* subprocess.check_output(cmd, stderr=STDOUT).decode('ascii')
check_output(out) ==
    IF out.rc # 0 THEN Some("CalledProcessError")
    ELSE IF ~out.ascii THEN Some("UnicodeDecodeError")
    ELSE None

(***************************************************************************)
(* bos status: the text is [normal, tempdis, dis, started]: whether it     *)
(* holds "currently running normally", "temporarily disabled, currently    *)
(* shutdown", "disabled, currently shutdown", and the phrase that follows  *)
(* its "last started at " (None when the text has no such words).          *)
(***************************************************************************)
\* As _get_fs_stats_normal, had the code tested the match ("if m:") before
\* using it.
_get_fs_stats_normal_if_m(s, text) ==
    LET s1 == [s EXCEPT !.status = "NORMAL"]
    IN  IF text.started = None \/ ~AFS_DATE_REGEX(text.started[1])
        THEN [self |-> s1, exc |-> None]
        ELSE LET t == Strptime(text.started[1])
             IN  IF t.exc # None
                 THEN [self |-> s1, exc |-> t.exc]
                 ELSE [self |-> [s1 EXCEPT !.restart = Some(t.value),
                                           !.uptime = Some(TimeDelta(s.timestamp[1], t.value))],
                       exc |-> None]

_get_fs_stats_normal(s, text) ==
    LET s1 == [s EXCEPT !.status = "NORMAL"]
    IN  IF text.started = None \/ ~AFS_DATE_REGEX(text.started[1])
        THEN [self |-> s1, exc |-> Some("AttributeError")]
        ELSE LET t == Strptime(text.started[1])
             IN  IF t.exc # None
                 THEN [self |-> s1, exc |-> t.exc]
                 ELSE [self |-> [s1 EXCEPT !.restart = Some(t.value),
                                           !.uptime = Some(TimeDelta(s.timestamp[1], t.value))],
                       exc |-> None]

\* As _get_fs_stats, without the try/except around check_output.
_get_fs_stats_no_except(s, out) ==
    LET e == check_output(out)
    IN  IF e # None THEN [self |-> s, exc |-> e]
        ELSE IF out.text.normal THEN _get_fs_stats_normal(s, out.text)
        ELSE IF out.text.tempdis
        THEN LET m == StatusMember("TEMPORARILY_DISABLED")
             IN  IF m.exc # None THEN [self |-> s, exc |-> m.exc]
                 ELSE [self |-> [s EXCEPT !.status = m.value], exc |-> None]
        ELSE IF out.text.dis
        THEN [self |-> [s EXCEPT !.status = "DISABLED"], exc |-> None]
        ELSE [self |-> [s EXCEPT !.status = "UNKNOWN"], exc |-> None]

_get_fs_stats(s, out) ==
    LET e == check_output(out)
    IN  IF e = Some("CalledProcessError")
        THEN [self |-> [s EXCEPT !.status = "NO_CONNECTION"], exc |-> None]
        ELSE IF e # None THEN [self |-> s, exc |-> e]
        ELSE IF out.text.normal THEN _get_fs_stats_normal(s, out.text)
        ELSE IF out.text.tempdis
        THEN LET m == StatusMember("TEMPORARILY_DISABLED")
             IN  IF m.exc # None THEN [self |-> s, exc |-> m.exc]
                 ELSE [self |-> [s EXCEPT !.status = m.value], exc |-> None]
        ELSE IF out.text.dis
        THEN [self |-> [s EXCEPT !.status = "DISABLED"], exc |-> None]
        ELSE [self |-> [s EXCEPT !.status = "UNKNOWN"], exc |-> None]

(***************************************************************************)
(* vos partinfo: a line is [k, letters, free, total]; k = "part" for       *)
(* "Free space on partition /vicep<letters>: <free> K blocks out of total  *)
(* <total>", anything else for a line without that shape.                  *)
(***************************************************************************)
\* As PartitionMatch, had the pattern taken any number of letters: [a-z]+
PartitionMatchLetters(line) == line.k = "part" /\ Len(line.letters) >= 1

\* /vicep(?P<partition>[a-z][a-z]?): one or two letters before the colon.
PartitionMatch(line) == line.k = "part" /\ Len(line.letters) \in 1..2

RECURSIVE PartitionLoop(_, _, _)
PartitionLoop(lines, i, parts) ==
    IF i > Len(lines) THEN [partitions |-> parts, exc |-> None]
    ELSE IF ~PartitionMatch(lines[i]) THEN PartitionLoop(lines, i + 1, parts)
    ELSE LET free == ToInt(lines[i].free)
             total == ToInt(lines[i].total)
             used == total - free
         IN  IF total = 0
             THEN [partitions |-> parts, exc |-> Some("ZeroDivisionError")]
             ELSE PartitionLoop(lines, i + 1,
                      Append(parts, [partition |-> <<"vicep">> \o lines[i].letters,
                                     used |-> used, free |-> free, total |-> total,
                                     percent_used |-> Round2(used, total)]))

_get_partition_stats(s, out) ==
    LET e == check_output(out)
    IN  IF e # None THEN [self |-> s, exc |-> e]
        ELSE LET r == PartitionLoop(out.text, 1, s.partitions)
             IN  [self |-> [s EXCEPT !.partitions = r.partitions], exc |-> r.exc]

(***************************************************************************)
(* rxdebug: a line is [waiting, idle]: the number before " calls waiting   *)
(* for a thread" and the one before " threads are idle", None when the     *)
(* line has no such phrase.                                                *)
(***************************************************************************)
RECURSIVE CallsWaitingLoop(_, _, _)
CallsWaitingLoop(lines, i, s) ==
    IF i > Len(lines) THEN s
    ELSE LET s1 == IF lines[i].waiting # None
                   THEN [s EXCEPT !.calls_waiting = Some(ToInt(lines[i].waiting[1]))]
                   ELSE s
             s2 == IF lines[i].idle # None
                   THEN [s1 EXCEPT !.idle_threads = Some(ToInt(lines[i].idle[1]))]
                   ELSE s1
         IN  CallsWaitingLoop(lines, i + 1, s2)

_get_calls_waiting(s, out) ==
    LET e == check_output(out)
    IN  IF e # None THEN [self |-> s, exc |-> e]
        ELSE [self |-> CallsWaitingLoop(out.text, 1, s), exc |-> None]

(***************************************************************************)
(* vos listvol -long.  The text is the sequence of its characters, line    *)
(* breaks included: the code reads it line by line into chunks and         *)
(* searches each chunk as one string, where \s also matches a line break.  *)
(***************************************************************************)
\* The number of lines read after the line that holds "On-line": range(8).
ChunkRest == 8

OnLine == <<"O", "n", "-", "l", "i", "n", "e">>

\* R[OW]
ReadOnlyOrWrite == <<Literal(<<"R">>), OneOf({"O", "W"})>>

\* ^(?P<vol>[^\s]+)\s+(?P<id>\d+)\s(?P<perms>...)\s+(?P<used>\d+) K
HeaderPattern(perms) ==
    <<ManyNot(Whitespace), Many(Whitespace), Many(DigitChars), OneOf(Whitespace)>>
    \o perms
    \o <<Many(Whitespace), Many(DigitChars), Literal(<<" ", "K">>)>>

\* MaxQuota\s+(?P<quota>\d+) K
QuotaPattern ==
    <<Literal(<<"M", "a", "x", "Q", "u", "o", "t", "a">>), Many(Whitespace), Many(DigitChars),
      Literal(<<" ", "K">>)>>

\* AFS_DATE_REGEX as the parts of the pattern:
\* \w+ \w+\s+(\d{1,2}) \d+:\d+:\d+ \d+
DatePattern ==
    <<Many(WordChars), Literal(<<" ">>), Many(WordChars), Many(Whitespace),
      UpTo(DigitChars, 2), Literal(<<" ">>), Many(DigitChars), Literal(<<":">>),
      Many(DigitChars), Literal(<<":">>), Many(DigitChars), Literal(<<" ">>), Many(DigitChars)>>

\* Creation\s+(?P<date>...)
CreationPattern ==
    <<Literal(<<"C", "r", "e", "a", "t", "i", "o", "n">>), Many(Whitespace)>> \o DatePattern

\* The groups of a match of the header pattern: the permissions lie between
\* the fifth place and the spaces before the last number.
HeaderGroups(chunk, t) ==
    IF t = <<>> THEN None
    ELSE Some([vol |-> Between(chunk, t, 1), id |-> Between(chunk, t, 3),
               perms |-> SubSeq(chunk, t[5], t[Len(t) - 3] - 1),
               used |-> Between(chunk, t, Len(t) - 2)])

QuotaGroups(chunk, t) == IF t = <<>> THEN None ELSE Some([quota |-> Between(chunk, t, 3)])

\* The date group as the phrase strptime is given; what separates its fields
\* is whitespace to strptime.
DateGroups(chunk, t) ==
    IF t = <<>> THEN None
    ELSE Some([date |-> [wd |-> Between(chunk, t, 3), mon |-> Between(chunk, t, 5),
                         day |-> DigitsOf(Between(chunk, t, 7)),
                         hh |-> DigitsOf(Between(chunk, t, 9)),
                         mm |-> DigitsOf(Between(chunk, t, 11)),
                         ss |-> DigitsOf(Between(chunk, t, 13)),
                         year |-> DigitsOf(Between(chunk, t, 15))]])

\* The header with the permissions of a pattern, at the start of the chunk.
Header(chunk, perms) == HeaderGroups(chunk, MatchAtStart(chunk, HeaderPattern(perms)))

\* Line 101: vol_regex.search(chunk)
vol_regex(chunk) == Header(chunk, ReadOnlyOrWrite)

\* Line 102: re.search('MaxQuota\s+(?P<quota>\d+) K', chunk)
QuotaSearch(chunk) == QuotaGroups(chunk, Search(chunk, QuotaPattern))

\* Line 107: re.search(r'Creation\s+%s' % self.AFS_DATE_REGEX, chunk)
CreationSearch(chunk) == DateGroups(chunk, Search(chunk, CreationPattern))

\* Lines 111-113: the Volume of the matches m and q, the datetime t and the
\* percentage, or the exception strptime raised.
VolumeWith(m, q, t, percent) ==
    IF t.exc # None THEN [volume |-> None, exc |-> t.exc]
    ELSE [volume |-> Some([volume |-> m.vol, id |-> m.id, perms |-> m.perms,
                           used |-> IntOf(m.used), quota |-> IntOf(q.quota),
                           percent_used |-> percent, creation |-> t.value]),
          exc |-> None]

\* As Converted, had the percentage of a quota of 0 been taken as 0.
ConvertedZero(m, q, c) ==
    IF m = None \/ q = None THEN [volume |-> None, exc |-> Some("AttributeError")]
    ELSE IF c = None THEN [volume |-> None, exc |-> Some("AttributeError")]
    ELSE VolumeWith(m[1], q[1], Strptime(c[1].date),
                    IF IntOf(q[1].quota) = 0 THEN 0
                    ELSE Round2(IntOf(m[1].used), IntOf(q[1].quota)))

\* Lines 103-113: what the three matches m, q and c are converted to.
Converted(m, q, c) ==
    IF m = None \/ q = None THEN [volume |-> None, exc |-> Some("AttributeError")]
    ELSE IF IntOf(q[1].quota) = 0 THEN [volume |-> None, exc |-> Some("ZeroDivisionError")]
    ELSE IF c = None THEN [volume |-> None, exc |-> Some("AttributeError")]
    ELSE VolumeWith(m[1], q[1], Strptime(c[1].date),
                    Round2(IntOf(m[1].used), IntOf(q[1].quota)))

\* As ChunkToVolume, had the percentage of a quota of 0 been taken as 0.
ChunkToVolumeZero(chunk) ==
    ConvertedZero(vol_regex(chunk), QuotaSearch(chunk), CreationSearch(chunk))

\* Lines 101-113: the chunk to a Volume, or the exception raised on the way.
ChunkToVolume(chunk) ==
    Converted(vol_regex(chunk), QuotaSearch(chunk), CreationSearch(chunk))

\* Line 90, readline(): the place of the last character of the line that starts at
\* place i, its line feed or the end of the text.
LineEnd(text, i) ==
    CHOOSE j \in i..Len(text) :
        /\ text[j] = "\n" \/ j = Len(text)
        /\ \A k \in i..(j - 1) : text[k] # "\n"

\* Lines 97-98: the place of the last character after n more readline() from
\* place last; at the end of the text readline() returns '' and the chunk
\* gets no longer.
RECURSIVE ReadMore(_, _, _)
ReadMore(text, last, n) ==
    IF n = 0 \/ last >= Len(text) THEN last
    ELSE ReadMore(text, LineEnd(text, last + 1), n - 1)

\* As VolumeLoop, had the code skipped a chunk it cannot convert.
RECURSIVE VolumeLoopSkipping(_, _, _)
VolumeLoopSkipping(text, i, vols) ==
    IF i > Len(text) THEN [volumes |-> vols, exc |-> None]
    ELSE IF ~Contains(SubSeq(text, i, LineEnd(text, i)), OnLine)
    THEN VolumeLoopSkipping(text, LineEnd(text, i) + 1, vols)
    ELSE LET last == ReadMore(text, LineEnd(text, i), ChunkRest)
             r == ChunkToVolume(SubSeq(text, i, last))
         IN  VolumeLoopSkipping(text, last + 1,
                                IF r.exc # None THEN vols ELSE Append(vols, r.volume[1]))

\* Lines 89-113: i is the place of the first character the next readline()
\* returns; past the end of the text the loop ends.
RECURSIVE VolumeLoop(_, _, _)

\* Lines 111-113 and the next turn of the loop: r is what the chunk that ends
\* at place last was converted to.
VolumeLoopAppend(text, last, vols, r) ==
    IF r.exc # None THEN [volumes |-> vols, exc |-> r.exc]
    ELSE VolumeLoop(text, last + 1, Append(vols, r.volume[1]))

\* Lines 101-113: the chunk from place i to place last.
VolumeLoopChunk(text, i, last, vols) ==
    VolumeLoopAppend(text, last, vols, ChunkToVolume(SubSeq(text, i, last)))

\* Lines 90-98: the line from place i to place last.
VolumeLoopLine(text, i, last, vols) ==
    IF ~Contains(SubSeq(text, i, last), OnLine) THEN VolumeLoop(text, last + 1, vols)
    ELSE VolumeLoopChunk(text, i, ReadMore(text, last, ChunkRest), vols)

VolumeLoop(text, i, vols) ==
    IF i > Len(text) THEN [volumes |-> vols, exc |-> None]
    ELSE VolumeLoopLine(text, i, LineEnd(text, i), vols)

\* self.volumes after the loop, and what the loop raised.
VolumesRead(s, r) == [self |-> [s EXCEPT !.volumes = r.volumes], exc |-> r.exc]

_get_volumes(s, out) ==
    IF check_output(out) # None THEN [self |-> s, exc |-> check_output(out)]
    ELSE VolumesRead(s, VolumeLoop(out.text, 1, s.volumes))

(***************************************************************************)
(* get_stats                                                               *)
(***************************************************************************)
RECURSIVE PartitionRows(_)
PartitionRows(parts) ==
    IF parts = <<>> THEN <<>>
    ELSE LET p == parts[1]
         IN  << <<"used", p.partition, p.used>>, <<"free", p.partition, p.free>>,
                <<"total", p.partition, p.total>>,
                <<"%used", p.partition, p.percent_used>> >>
             \o PartitionRows(Tail(parts))

RECURSIVE VolumeRows(_)
VolumeRows(vols) ==
    IF vols = <<>> THEN <<>>
    ELSE LET v == vols[1]
         IN  << <<"used", v.volume, v.used>>, <<"quota", v.volume, v.quota>>,
                <<"%used", v.volume, v.percent_used>>,
                <<"creation", v.volume, v.creation>> >>
             \o VolumeRows(Tail(vols))

\* Lines 185-209: the PrettyTable, as its rows.
Table(s) ==
    << <<"Hostname", s.hostname>>, <<"Timestamp", s.timestamp>>, <<"Status", s.status>>,
       <<"Uptime", s.uptime>>, <<"Last Restart", s.restart>>,
       <<"Calls Waiting", s.calls_waiting>>, <<"Idle Threads", s.idle_threads>> >>
    \o PartitionRows(s.partitions) \o VolumeRows(s.volumes)

\* Line 177: get_stats starts by taking the time.
get_stats_enter(s, now) == [s EXCEPT !.timestamp = Some(now)]

\* As AfterMethod, had get_stats caught what its methods raise.
AfterMethodCaught(e, next) == next

\* Where get_stats goes after a method that ended with exception e.
AfterMethod(e, next) == IF e # None THEN "raised" ELSE next

\* As AfterFsStats, had the test been "not NO_CONNECTION".
AfterFsStatsConnected(s) == IF s.status # "NO_CONNECTION" THEN "partition_stats" ELSE "table"

\* Line 180: the other commands run only for a NORMAL server.
AfterFsStats(s) == IF s.status = "NORMAL" THEN "partition_stats" ELSE "table"

Issued(cmd, s, out) == Append(cmdlog, [cmd |-> cmd, host |-> s.hostname, out |-> out])

\* Line 179, and the test of line 180.
GetFsStats(out) ==
    /\ pc = "fs_stats"
    /\ LET r == _get_fs_stats(self, out)
       IN  /\ self' = r.self
           /\ exc' = r.exc
           /\ pc' = AfterMethod(r.exc, AfterFsStats(r.self))
    /\ cmdlog' = Issued("bos status", self, out)
    /\ UNCHANGED <<polls, mark, mainvars>>

\* Line 181.
GetPartitionStats(out) ==
    /\ pc = "partition_stats"
    /\ LET r == _get_partition_stats(self, out)
       IN  /\ self' = r.self
           /\ exc' = r.exc
           /\ pc' = AfterMethod(r.exc, "calls_waiting")
    /\ cmdlog' = Issued("vos partinfo", self, out)
    /\ UNCHANGED <<polls, mark, mainvars>>

\* Line 182.
GetCallsWaiting(out) ==
    /\ pc = "calls_waiting"
    /\ LET r == _get_calls_waiting(self, out)
       IN  /\ self' = r.self
           /\ exc' = r.exc
           /\ pc' = AfterMethod(r.exc, "volumes")
    /\ cmdlog' = Issued("rxdebug", self, out)
    /\ UNCHANGED <<polls, mark, mainvars>>

\* Line 183.
GetVolumes(out) ==
    /\ pc = "volumes"
    /\ LET r == _get_volumes(self, out)
       IN  /\ self' = r.self
           /\ exc' = r.exc
           /\ pc' = AfterMethod(r.exc, "table")
    /\ cmdlog' = Issued("vos listvol", self, out)
    /\ UNCHANGED <<polls, mark, mainvars>>

\* Lines 185-209: the table is built and get_stats returns.
GetStatsReturn ==
    /\ pc = "table"
    /\ self' = [self EXCEPT !.table = Some(Table(self))]
    /\ pc' = "returned"
    /\ UNCHANGED <<exc, polls, mark, cmdlog, mainvars>>

(***************************************************************************)
(* get_fs_addresses                                                        *)
(***************************************************************************)
\* line.strip() is not empty
StripNonEmpty(line) == \E i \in 1..Len(line) : line[i] \notin Whitespace

RECURSIVE AddressLoop(_, _, _)
AddressLoop(lines, i, fs) ==
    IF i > Len(lines) THEN fs
    ELSE AddressLoop(lines, i + 1,
                     IF StripNonEmpty(lines[i]) THEN Append(fs, lines[i]) ELSE fs)

\* As get_fs_addresses, without the try/except around check_output.
get_fs_addresses_no_except(out) ==
    LET e == check_output(out)
    IN  IF e # None THEN [fs |-> <<>>, exc |-> e]
        ELSE [fs |-> AddressLoop(out.text, 1, <<>>), exc |-> None]

get_fs_addresses(out) ==
    LET e == check_output(out)
    IN  IF e = Some("CalledProcessError") THEN [fs |-> <<>>, exc |-> None]
        ELSE IF e # None THEN [fs |-> <<>>, exc |-> e]
        ELSE [fs |-> AddressLoop(out.text, 1, <<>>), exc |-> None]

(***************************************************************************)
(* AFSMonCmd                                                               *)
(***************************************************************************)
\* str.replace(old, new) of a string kept as its pieces
Replace(str, old, new) == [i \in 1..Len(str) |-> IF str[i] = old THEN new ELSE str[i]]

\* Lines 29-30: what is printed, and the AttributeError of str(fs) on an
\* object get_stats has not given its table.
RECURSIVE Tables(_)
Tables(fss) ==
    IF fss = <<>> THEN [out |-> <<>>, exc |-> None]
    ELSE IF fss[1].table = None THEN [out |-> <<>>, exc |-> Some("AttributeError")]
    ELSE LET rest == Tables(Tail(fss))
         IN  [out |-> <<fss[1].table[1]>> \o rest.out, exc |-> rest.exc]

\* cmd_show: print(fs) for every fileserver; returns 0.
cmd_show(fss) ==
    LET t == Tables(fss)
    IN  [out |-> t.out, exc |-> t.exc, ret |-> IF t.exc = None THEN Some(0) ELSE None]

\* int(dt.strftime("%s")): the seconds since the epoch of the naive time dt
\* read as local time.  tz is the zone TZ names, as the hours it lies west of
\* UTC ("EST5" is Some(5), "CET-1" is Some(-1)), UTC when TZ is not set.
LocalEpoch(dt, tz) == Seconds(dt) + (IF tz = None THEN 0 ELSE tz[1] * 3600)

RECURSIVE PartitionGauges(_, _)
PartitionGauges(hn, parts) ==
    IF parts = <<>> THEN <<>>
    ELSE LET p == parts[1]
         IN  << [name |-> <<"afs", ".">> \o hn \o <<".", "part", ".">> \o p.partition \o <<".", "used">>,
                 value |-> Some(p.used)],
                [name |-> <<"afs", ".">> \o hn \o <<".", "part", ".">> \o p.partition \o <<".", "free">>,
                 value |-> Some(p.free)],
                [name |-> <<"afs", ".">> \o hn \o <<".", "part", ".">> \o p.partition \o <<".", "total">>,
                 value |-> Some(p.total)] >>
             \o PartitionGauges(hn, Tail(parts))

RECURSIVE VolumeGauges(_, _, _)
VolumeGauges(hn, vols, tz) ==
    IF vols = <<>> THEN <<>>
    ELSE LET v == vols[1]
             vn == Replace(v.volume, ".", "_")
         IN  << [name |-> <<"afs", ".">> \o hn \o <<".", "vol", ".">> \o vn \o <<".", "used">>,
                 value |-> Some(v.used)],
                [name |-> <<"afs", ".">> \o hn \o <<".", "vol", ".">> \o vn \o <<".", "quota">>,
                 value |-> Some(v.quota)],
                [name |-> <<"afs", ".">> \o hn \o <<".", "vol", ".">> \o vn \o <<".", "creation">>,
                 value |-> Some(LocalEpoch(v.creation, tz))] >>
             \o VolumeGauges(hn, Tail(vols), tz)

\* Lines 66-84: the gauges of one fileserver.
ServerGauges(f, tz) ==
    LET hn == Replace(f.hostname, ".", "_")
    IN  << [name |-> <<"afs", ".">> \o hn \o <<".", "idle_threads">>,
            value |-> f.idle_threads],
           [name |-> <<"afs", ".">> \o hn \o <<".", "calls_waiting">>,
            value |-> f.calls_waiting] >>
        \o PartitionGauges(hn, f.partitions) \o VolumeGauges(hn, f.volumes, tz)

\* As Gauges, without the test of the status (lines 63-64).
RECURSIVE GaugesWhateverStatus(_, _)
GaugesWhateverStatus(fss, tz) ==
    IF fss = <<>> THEN [gauges |-> <<>>, exc |-> None]
    ELSE LET rest == GaugesWhateverStatus(Tail(fss), tz)
         IN  [gauges |-> ServerGauges(fss[1], tz) \o rest.gauges, exc |-> rest.exc]

\* Lines 62-84: the gauges put in the pipeline, in order, and the
\* AttributeError of f.status on an object get_stats has not given a status,
\* which ends the loop.
RECURSIVE Gauges(_, _)
Gauges(fss, tz) ==
    IF fss = <<>> THEN [gauges |-> <<>>, exc |-> None]
    ELSE IF fss[1].status = "<unset>" THEN [gauges |-> <<>>, exc |-> Some("AttributeError")]
    ELSE LET rest == Gauges(Tail(fss), tz)
         IN  [gauges |-> (IF fss[1].status # "NORMAL" THEN <<>> ELSE ServerGauges(fss[1], tz))
                         \o rest.gauges,
              exc |-> rest.exc]

\* Lines 36-51: the arguments of StatsClient.  cfg is [section, host, port] (the
\* [statsd] section is there; its options, None when missing), env the
\* environment.  The handler of the second lookup names
\* configparser.NoOptionerror, which configparser does not have.
StatsdArgs(cfg, env) ==
    LET fromcfg == IF ~cfg.section THEN [host |-> None, port |-> None, exc |-> None]
                   ELSE IF cfg.port = None
                   THEN [host |-> cfg.host, port |-> None, exc |-> Some("AttributeError")]
                   ELSE [host |-> cfg.host, port |-> cfg.port, exc |-> None]
    IN  IF fromcfg.exc # None THEN fromcfg
        ELSE [host |-> IF env.STATSD_HOST # None /\ env.STATSD_HOST # Some("")
                       THEN env.STATSD_HOST ELSE fromcfg.host,
              port |-> IF env.STATSD_PORT # None /\ env.STATSD_PORT # Some("")
                       THEN env.STATSD_PORT ELSE fromcfg.port,
              exc |-> None]

\* cmd_statsd: the client's arguments and the gauges sent; returns None.  The
\* pipeline sends what it holds at pipe.send() (line 86): nothing is sent when
\* the loop raises.
cmd_statsd(cfg, env, fss) ==
    LET a == StatsdArgs(cfg, env)
        g == Gauges(fss, env.TZ)
    IN  IF a.exc # None THEN [out |-> <<>>, exc |-> a.exc, ret |-> None]
        ELSE IF g.exc # None
        THEN [out |-> <<[host |-> a.host, port |-> a.port]>>, exc |-> g.exc, ret |-> None]
        ELSE [out |-> <<[host |-> a.host, port |-> a.port]>> \o g.gauges,
              exc |-> None, ret |-> None]

(***************************************************************************)
(* AFSMonCmd.main.  config is [command, cell, fileservers]: the subcommand *)
(* of the command line (None when none was given) and the options of the   *)
(* [main] section (None when missing; fileservers as its lines).           *)
(***************************************************************************)
\* As MainResolved, without the test of lines 146-147.
MainResolvedAnyway(addrs) ==
    /\ mpc' = "loop"
    /\ fs_addrs' = addrs
    /\ UNCHANGED mexc

\* Lines 146-147, after fs_addrs is known.
MainResolved(addrs) ==
    IF addrs = <<>>
    THEN /\ mpc' = "raised"
         /\ mexc' = Some("ValueError")
         /\ UNCHANGED fs_addrs
    ELSE /\ mpc' = "loop"
         /\ fs_addrs' = addrs
         /\ UNCHANGED mexc

\* As WithConfigured, had the configured fileservers been put first.
WithConfiguredFirst(addrs) ==
    IF config.fileservers # None /\ config.fileservers[1] # <<>>
    THEN config.fileservers[1] \o addrs
    ELSE addrs

\* Lines 140-144: the configured fileservers, added after the cell's.
WithConfigured(addrs) ==
    IF config.fileservers # None /\ config.fileservers[1] # <<>>
    THEN addrs \o config.fileservers[1]
    ELSE addrs

\* Lines 126-128: no subcommand.
MainNoCommand ==
    /\ mpc = "start"
    /\ config.command = None
    /\ mpc' = "returned"
    /\ mret' = Some(1)
    /\ UNCHANGED <<objvars, cmdlog, config, fs_addrs, next_addr, fileservers, reported, mexc>>

\* Lines 130-147 with a cell: get_fs_addresses runs 'vos listaddrs'.
MainCell(out) ==
    /\ mpc = "start"
    /\ config.command # None
    /\ config.cell # None /\ config.cell # Some(<<>>)
    /\ cmdlog' = Append(cmdlog, [cmd |-> "vos listaddrs", host |-> config.cell[1], out |-> out])
    /\ LET r == get_fs_addresses(out)
       IN  IF r.exc # None
           THEN /\ mpc' = "raised"
                /\ mexc' = r.exc
                /\ UNCHANGED fs_addrs
           ELSE MainResolved(WithConfigured(r.fs))
    /\ UNCHANGED <<objvars, config, next_addr, fileservers, reported, mret>>

\* Lines 130-147 without a cell.
MainNoCell ==
    /\ mpc = "start"
    /\ config.command # None
    /\ config.cell = None \/ config.cell = Some(<<>>)
    /\ MainResolved(WithConfigured(<<>>))
    /\ UNCHANGED <<objvars, cmdlog, config, next_addr, fileservers, reported, mret>>

\* Lines 150-153: the next address, a new object, and get_stats is called.
MainPoll(now) ==
    /\ mpc = "loop"
    /\ next_addr <= Len(fs_addrs)
    /\ self' = get_stats_enter(FileServerStatsInit(fs_addrs[next_addr]), now)
    /\ pc' = "fs_stats"
    /\ exc' = None
    /\ polls' = 1
    /\ mark' = Len(cmdlog)
    /\ mpc' = "polling"
    /\ UNCHANGED <<cmdlog, config, fs_addrs, next_addr, fileservers, reported, mret, mexc>>

\* Line 154: get_stats returned.
MainAppend ==
    /\ mpc = "polling"
    /\ pc = "returned"
    /\ fileservers' = Append(fileservers, self)
    /\ next_addr' = next_addr + 1
    /\ mpc' = "loop"
    /\ UNCHANGED <<objvars, cmdlog, config, fs_addrs, reported, mret, mexc>>

\* get_stats raised: nothing in main catches it.
MainRaise ==
    /\ mpc = "polling"
    /\ pc = "raised"
    /\ mpc' = "raised"
    /\ mexc' = exc
    /\ UNCHANGED <<objvars, cmdlog, config, fs_addrs, next_addr, fileservers, reported, mret>>

\* Line 157: the subcommand.
MainFunc(cfg, env) ==
    /\ mpc = "loop"
    /\ next_addr > Len(fs_addrs)
    /\ LET r == IF config.command = Some("show") THEN cmd_show(fileservers)
                ELSE cmd_statsd(cfg, env, fileservers)
       IN  /\ reported' = r.out
           /\ mret' = r.ret
           /\ mexc' = r.exc
           /\ mpc' = IF r.exc # None THEN "raised" ELSE "returned"
    /\ UNCHANGED <<objvars, cmdlog, config, fs_addrs, next_addr, fileservers>>

(***************************************************************************)
(* The command outputs and the configurations the model runs on            *)
(***************************************************************************)
Ok(text) == [rc |-> 0, ascii |-> TRUE, text |-> text]

\* A non-zero exit: what the command wrote is never looked at.
Failed == [rc |-> 1, ascii |-> TRUE, text |-> <<>>]

NotAscii(text) == [rc |-> 0, ascii |-> FALSE, text |-> text]

\* "Tue Nov  2 03:35:15 2016"
DateA == [wd |-> <<"T", "u", "e">>, mon |-> <<"N", "o", "v">>, day |-> <<2>>,
          hh |-> <<0, 3>>, mm |-> <<3, 5>>, ss |-> <<1, 5>>, year |-> <<2, 0, 1, 6>>]

\* "Tue Oct  2 18:45:54 2018"
DateB == [wd |-> <<"T", "u", "e">>, mon |-> <<"O", "c", "t">>, day |-> <<2>>,
          hh |-> <<1, 8>>, mm |-> <<4, 5>>, ss |-> <<5, 4>>, year |-> <<2, 0, 1, 8>>]

\* "tue NOV  2 3:35:15 2016": DateA in other letters and digits
DateAnyCase == [DateA EXCEPT !.wd = <<"t", "u", "e">>, !.mon = <<"N", "O", "V">>,
                             !.hh = <<3>>]

\* "Thu Nov 31 03:35:15 2016": the pattern matches, the calendar has no such day
DateNoSuchDay == [DateA EXCEPT !.wd = <<"T", "h", "u">>, !.day = <<3, 1>>]

\* "Tue Nov  2 03:35:15 216": the pattern matches, the year has too few digits
DateShortYear == [DateA EXCEPT !.year = <<2, 1, 6>>]

\* "Tue Nov 102 03:35:15 2016": the pattern does not match
DateNoMatch == [DateA EXCEPT !.day = <<1, 0, 2>>]

NowValues ==
    {[year |-> 2018, month |-> 10, day |-> 3, hour |-> 0, minute |-> 0, second |-> 0],
     [year |-> 2018, month |-> 10, day |-> 4, hour |-> 12, minute |-> 30, second |-> 1]}

\* The polls of one run of main follow each other at once: one time.
RunNowValues == {[year |-> 2018, month |-> 10, day |-> 3, hour |-> 0, minute |-> 0, second |-> 0]}

BosText(normal, tempdis, dis, started) ==
    [normal |-> normal, tempdis |-> tempdis, dis |-> dis, started |-> started]

\* "temporarily disabled, currently shutdown" holds "disabled, currently shutdown".
BosFailed == [rc |-> 1, ascii |-> TRUE, text |-> BosText(FALSE, FALSE, FALSE, None)]

BosOutputs ==
    {BosFailed, NotAscii(BosText(TRUE, FALSE, FALSE, Some(DateA)))}
    \cup {Ok(BosText(TRUE, FALSE, FALSE, d)) :
            d \in {None, Some(DateA), Some(DateNoSuchDay), Some(DateShortYear),
                   Some(DateNoMatch)}}
    \cup {Ok(BosText(FALSE, TRUE, TRUE, None)), Ok(BosText(FALSE, FALSE, TRUE, Some(DateB))),
          Ok(BosText(TRUE, TRUE, TRUE, Some(DateB))), Ok(BosText(FALSE, FALSE, FALSE, None))}

PartLine(letters, free, total) ==
    [k |-> "part", letters |-> letters, free |-> free, total |-> total]

NoPartLine == [k |-> "other", letters |-> <<>>, free |-> <<>>, total |-> <<>>]

PartOutputs ==
    {Failed, NotAscii(<<>>),
     Ok(<<NoPartLine, PartLine(<<"a">>, <<5, 1, 2>>, <<1, 0, 2, 4>>), NoPartLine>>),
     Ok(<<PartLine(<<"a">>, <<0>>, <<0>>)>>),
     Ok(<<PartLine(<<"a">>, <<5, 1, 2>>, <<1, 0, 2, 4>>), PartLine(<<"b">>, <<7>>, <<0, 0>>)>>)}

RxLine(waiting, idle) == [waiting |-> waiting, idle |-> idle]

RxOutputs ==
    {Failed, NotAscii(<<>>),
     Ok(<<RxLine(None, None)>>),
     Ok(<<RxLine(None, None), RxLine(Some(<<0>>), None), RxLine(None, Some(<<2, 5, 0>>))>>)}

Spaces(n) == [i \in 1..n |-> " "]

\* The digit characters that spell the decimal digits ds.
Chars(ds) == [i \in 1..Len(ds) |-> Digit[ds[i] + 1]]

\* A phrase as it stands in a text, the day in two columns:
\* "Tue Oct  2 18:45:54 2018"
DateText(p) ==
    p.wd \o <<" ">> \o p.mon \o Spaces(3 - Min(Len(p.day), 2)) \o Chars(p.day) \o <<" ">>
    \o Chars(p.hh) \o <<":">> \o Chars(p.mm) \o <<":">> \o Chars(p.ss) \o <<" ">>
    \o Chars(p.year)

\* The text of some lines, each ending in its line feed.
RECURSIVE Text(_)
Text(lines) ==
    IF lines = <<>> THEN <<>>
    ELSE IF Len(lines) = 1 THEN lines[1]
    ELSE Text(SubSeq(lines, 1, Len(lines) \div 2))
         \o Text(SubSeq(lines, Len(lines) \div 2 + 1, Len(lines)))

PermsOf == [RO |-> <<"R", "O">>, RW |-> <<"R", "W">>, BK |-> <<"B", "K">>]

\* "docs.backup  536870993 RW   1727 K  On-line"
HdrLine(vol, id, perms, used) ==
    vol \o Spaces(2) \o id \o <<" ">> \o PermsOf[perms] \o Spaces(3) \o used
    \o <<" ", "K", " ", " ", "O", "n", "-", "l", "i", "n", "e", "\n">>

\* "    MaxQuota 5000 K"
QuotaLine(quota) ==
    <<" ", " ", " ", " ", "M", "a", "x", "Q", "u", "o", "t", "a", " ">> \o quota \o <<" ", "K",
        "\n">>

\* "    Creation    Tue Oct  2 18:45:54 2018"
CreationLine(date) ==
    <<" ", " ", " ", " ", "C", "r", "e", "a", "t", "i", "o", "n", " ", " ", " ", " ">>
    \o DateText(date) \o <<"\n">>

\* A line the patterns find nothing in, with or without "On-line".
OtherLine(online) ==
    IF online THEN <<" ", " ", " ", " ", "V", "o", "l", "u", "m", "e", " ", "i", "s", " ", "O",
                     "n", "-", "l", "i", "n", "e", "\n">>
    ELSE <<" ", " ", " ", " ", "B", "a", "c", "k", "u", "p", " ", "N", "e", "v", "e", "r", "\n">>

\* One volume of 'vos listvol -long', as its lines: the header, the server
\* and partition, the ids, MaxQuota, Creation, Copy, Backup, Last Access, Last
\* Update.
VolumeRecord(hdr, quota, date) ==
    <<hdr, OtherLine(FALSE), OtherLine(FALSE), QuotaLine(quota), CreationLine(date),
      OtherLine(FALSE), OtherLine(FALSE), OtherLine(FALSE), OtherLine(FALSE)>>

\* After each volume: the accesses line and an empty line.
VolumeGap == <<<<" ", " ", " ", " ", "0", " ", "a", "c", "c", "e", "s", "s", "e", "s", "\n">>,
               <<"\n">>>>

DocsBackup(perms) ==
    VolumeRecord(HdrLine(<<"d", "o", "c", "s", ".", "b", "a", "c", "k", "u", "p">>,
                         <<"5", "3", "6", "8", "7", "0", "9", "9", "3">>, perms,
                         <<"1", "7", "2", "7">>),
                 <<"5", "0", "0", "0">>, DateB)

\* A volume that was created and never given a quota: "MaxQuota 0 K".
MirrorEmpty ==
    VolumeRecord(HdrLine(<<"m", "i", "r", "r", "o", "r", ".", "f", "o", "o">>,
                         <<"5", "3", "6", "8", "7", "1", "0", "0", "0">>, "RW", <<"0">>),
                 <<"0">>, DateA)

VolOutputs ==
    {Failed, NotAscii(<<>>),
     Ok(Text(<<OtherLine(FALSE)>> \o DocsBackup("RW") \o VolumeGap)),
     Ok(Text(DocsBackup("RO") \o VolumeGap \o DocsBackup("BK") \o VolumeGap)),
     Ok(Text(SubSeq(DocsBackup("RW"), 1, 3))),
     Ok(Text(DocsBackup("RO") \o VolumeGap \o MirrorEmpty))}

\* The most addresses one run of main polls.
MaxAddrs == 2

\* The fileservers the configuration names, and those the cell lists.
Hosts == <<<<"afs01", ".", "example", ".", "org">>, <<"afs02">>, <<"afs_03">>>>

CellHosts == <<<<"afs02">>, <<"afs01", ".", "example", ".", "org">>, <<"afs_03">>>>

Configs ==
    {[command |-> c, cell |-> cl, fileservers |-> f] :
        c \in {None, Some("show"), Some("statsd")},
        cl \in {None, Some(<<>>), Some(<<"openstack", ".", "org">>)},
        f \in {None} \cup {Some(SubSeq(Hosts, 1, k)) : k \in 0..Min(MaxAddrs, Len(Hosts))}}

ConfiguredCount == IF config.fileservers = None THEN 0 ELSE Len(config.fileservers[1])

\* 'vos listaddrs' ends its output with a newline: the last line is empty.
AddrOutputs ==
    {Failed, NotAscii(<<>>)}
    \cup {Ok(SubSeq(CellHosts, 1, k) \o <<<<>>>>) :
             k \in 0..Min(MaxAddrs - ConfiguredCount, Len(CellHosts))}

StatsdConfigs ==
    {[section |-> FALSE, host |-> None, port |-> None],
     [section |-> TRUE, host |-> Some("statsd.example.org"), port |-> None]}

\* The environment: STATSD_HOST, STATSD_PORT and the time zone of TZ.
Environments ==
    {[STATSD_HOST |-> None, STATSD_PORT |-> None, TZ |-> None],
     [STATSD_HOST |-> None, STATSD_PORT |-> None, TZ |-> Some(5)]}

(***************************************************************************)
(* Spec: one run of afsmon (AFSMonCmd.main)                                *)
(***************************************************************************)
Init ==
    /\ self = FileServerStatsInit(<<>>)
    /\ pc = "idle"
    /\ exc = None
    /\ polls = 0
    /\ mark = 0
    /\ cmdlog = <<>>
    /\ mpc = "start"
    /\ config \in Configs
    /\ fs_addrs = <<>>
    /\ next_addr = 1
    /\ fileservers = <<>>
    /\ reported = <<>>
    /\ mret = None
    /\ mexc = None

Next ==
    \/ MainNoCommand
    \/ \E out \in AddrOutputs : MainCell(out)
    \/ MainNoCell
    \/ \E now \in RunNowValues : MainPoll(now)
    \/ \E out \in BosOutputs : GetFsStats(out)
    \/ \E out \in PartOutputs : GetPartitionStats(out)
    \/ \E out \in RxOutputs : GetCallsWaiting(out)
    \/ \E out \in VolOutputs : GetVolumes(out)
    \/ GetStatsReturn
    \/ MainAppend
    \/ MainRaise
    \/ \E cfg \in StatsdConfigs, env \in Environments : MainFunc(cfg, env)

Spec == Init /\ [][Next]_vars

(***************************************************************************)
(* SpecRepoll: a caller that keeps one FileServerStats object and calls    *)
(* get_stats on it again, after it returned or raised                      *)
(***************************************************************************)
\* The most calls of get_stats on the one object.
MaxPolls == 2

InitObject(who) ==
    /\ self = FileServerStatsInit(Hosts[1])
    /\ pc = "idle"
    /\ exc = None
    /\ polls = 0
    /\ mark = 0
    /\ cmdlog = <<>>
    /\ mpc = who
    /\ config = [command |-> None, cell |-> None, fileservers |-> None]
    /\ fs_addrs = <<>>
    /\ next_addr = 1
    /\ fileservers = <<>>
    /\ reported = <<>>
    /\ mret = None
    /\ mexc = None

InitRepoll == InitObject("caller")

CallGetStats(now) ==
    /\ mpc = "caller"
    /\ pc \in {"idle", "returned", "raised"}
    /\ polls < MaxPolls
    /\ self' = get_stats_enter(self, now)
    /\ pc' = "fs_stats"
    /\ exc' = None
    /\ polls' = polls + 1
    /\ mark' = Len(cmdlog)
    /\ UNCHANGED <<cmdlog, mainvars>>

NextRepoll ==
    \/ \E now \in NowValues : CallGetStats(now)
    \/ \E out \in BosOutputs : GetFsStats(out)
    \/ \E out \in PartOutputs : GetPartitionStats(out)
    \/ \E out \in RxOutputs : GetCallsWaiting(out)
    \/ \E out \in VolOutputs : GetVolumes(out)
    \/ GetStatsReturn

SpecRepoll == InitRepoll /\ [][NextRepoll]_vars

(***************************************************************************)
(* SpecVolumes: _get_volumes called on a new object, as                    *)
(* test_vos_listvol_parsing calls it, on listings of up to MaxRecords      *)
(* volume records                                                          *)
(***************************************************************************)
\* The most volume records in one listing.
MaxRecords == 2

VolNames == <<<<"d", "o", "c", "s", ".", "b", "a", "c", "k", "u", "p">>,
              <<"m", "i", "r", "r", "o", "r", ".", "f", "o", "o">>,
              <<"m", "i", "r", "r", "o", "r", ".", "m", "o", "o">>,
              <<"r", "o", "o", "t", ".", "a", "f", "s">>>>

\* What the j-th record of a listing says, until a variant changes it.
RecordId(j) == <<"5", "3", "6", "8", "7", "0", "9", "9">> \o <<Digit[j + 1]>>

RecordUsed(j) == <<"1", "7", "2", Digit[j + 1]>>

RecordQuota(j) == <<"5", "0", "0", Digit[j + 1]>>

RecordHdr(j, perms) == HdrLine(VolNames[j], RecordId(j), perms, RecordUsed(j))

RecordDate(j) == IF j % 2 = 1 THEN DateB ELSE DateA

WellFormed(j, perms) ==
    VolumeRecord(RecordHdr(j, perms), RecordQuota(j), RecordDate(j))

\* The variants of a record.  In the "break" ones a line of the record is
\* broken in two where the pattern takes whitespace, and one of the lines
\* that follow is left out: after the volume name (which then ends in
\* ".On-line", the first line holding "On-line" as the first line of a
\* record does), after the id, after "MaxQuota", after "Creation", and
\* within the date.
Variants == {"RO", "RW", "BK", "noheader", "noquota", "nocreation", "zeroquota", "nodate",
             "nosuchday", "shortyear", "anycase", "twocreations", "tie", "marker", "header",
             "namebreak", "idbreak", "quotabreak", "creationbreak", "datebreak"}

\* The variants of the records that another record follows.
EarlierVariants == {"RW", "BK", "marker", "header", "namebreak"}

\* The j-th record, 9 lines, in variant v.
Record(j, v) ==
    LET w == WellFormed(j, "RW")
    IN  IF v \in {"RO", "RW", "BK"} THEN WellFormed(j, v)
        ELSE IF v = "noheader" THEN [w EXCEPT ![1] = OtherLine(TRUE)]
        ELSE IF v = "noquota" THEN [w EXCEPT ![4] = OtherLine(FALSE)]
        ELSE IF v = "nocreation" THEN [w EXCEPT ![5] = OtherLine(FALSE)]
        ELSE IF v = "zeroquota" THEN [w EXCEPT ![4] = QuotaLine(<<"0">>)]
        ELSE IF v = "nodate" THEN [w EXCEPT ![5] = CreationLine(DateNoMatch)]
        ELSE IF v = "nosuchday" THEN [w EXCEPT ![5] = CreationLine(DateNoSuchDay)]
        ELSE IF v = "shortyear" THEN [w EXCEPT ![5] = CreationLine(DateShortYear)]
        ELSE IF v = "anycase" THEN [w EXCEPT ![5] = CreationLine(DateAnyCase)]
        ELSE IF v = "twocreations" THEN [w EXCEPT ![5] = CreationLine(DateNoMatch),
                                                  ![6] = CreationLine(RecordDate(j))]
        ELSE IF v = "tie"
        THEN [w EXCEPT ![1] = HdrLine(VolNames[j], RecordId(j), "RW", <<"1", "3", "7">>),
                       ![4] = QuotaLine(<<"1", "6", "0">>)]
        ELSE IF v = "marker" THEN [w EXCEPT ![7] = OtherLine(TRUE)]
        ELSE IF v = "header" THEN [w EXCEPT ![9] = RecordHdr(j + 1, "RO")]
        ELSE IF v = "namebreak"
        THEN [w EXCEPT ![1] = VolNames[j] \o <<".">> \o OnLine \o <<"\n">>,
                       ![2] = RecordId(j) \o <<" ", "R", "W", " ">> \o RecordUsed(j)
                              \o <<" ", "K", "\n">>]
        ELSE IF v = "idbreak"
        THEN [w EXCEPT ![1] = VolNames[j] \o <<".">> \o OnLine \o <<" ">> \o RecordId(j)
                              \o <<"\n">>,
                       ![2] = <<"R", "W", " ">> \o RecordUsed(j) \o <<" ", "K", "\n">>]
        ELSE IF v = "quotabreak"
        THEN [w EXCEPT ![3] = <<" ", " ", " ", " ", "M", "a", "x", "Q", "u", "o", "t", "a", "\n">>,
                       ![4] = Spaces(9) \o RecordQuota(j) \o <<" ", "K", "\n">>]
        ELSE IF v = "creationbreak"
        THEN [w EXCEPT ![5] = <<" ", " ", " ", " ", "C", "r", "e", "a", "t", "i", "o", "n", "\n">>,
                       ![6] = Spaces(4) \o DateText(RecordDate(j)) \o <<"\n">>]
        ELSE [w EXCEPT ![5] = <<" ", " ", " ", " ", "C", "r", "e", "a", "t", "i", "o", "n", " ",
                                " ", " ", " ", "T", "u", "e", " ", "O", "c", "t", "\n">>,
                       ![6] = <<" ", "2", " ", "1", "8", ":", "4", "5", ":", "5", "4", " ", "2",
                                "0", "1", "8", "\n">>]

RECURSIVE Records(_, _, _)
Records(vs, j, gap) ==
    IF j > Len(vs) THEN <<>>
    ELSE Record(j, vs[j]) \o gap \o Records(vs, j + 1, gap)

RECURSIVE SeqsUpTo(_, _)
SeqsUpTo(S, n) ==
    IF n = 0 THEN {<<>>}
    ELSE LET shorter == SeqsUpTo(S, n - 1)
         IN  shorter \cup {Append(q, x) : q \in {r \in shorter : Len(r) = n - 1}, x \in S}

\* The variants of the records of a listing: any variant for the last.
RecordVariants ==
    {<<>>} \cup {Append(q, v) : q \in SeqsUpTo(EarlierVariants, MaxRecords - 1), v \in Variants}

\* The lines of a listing of records in these variants: a first line and the
\* records, with the same lines after each.
ListingLines(vs, gap) == <<OtherLine(FALSE)>> \o Records(vs, 1, gap)

\* The listings: those whose records follow each other, whole and cut short
\* by up to ChunkRest lines, and those with the lines between the records.
VolListings ==
    {Ok(Text(SubSeq(ListingLines(vs, <<>>), 1, Len(ListingLines(vs, <<>>)) - cut))) :
        vs \in RecordVariants, cut \in 0..ChunkRest}
    \cup {Ok(Text(ListingLines(vs, VolumeGap))) : vs \in RecordVariants}

InitVolumes == InitObject("test")

\* fs._get_volumes() on the new object.
TestGetVolumes(out) ==
    /\ mpc = "test"
    /\ pc = "idle"
    /\ LET r == _get_volumes(self, out)
       IN  /\ self' = r.self
           /\ exc' = r.exc
           /\ pc' = AfterMethod(r.exc, "returned")
    /\ cmdlog' = Issued("vos listvol", self, out)
    /\ UNCHANGED <<polls, mark, mainvars>>

\* The test calls the method once: the listings are gone through for the new
\* object only.
NextVolumes == pc = "idle" /\ \E out \in VolListings : TestGetVolumes(out)

SpecVolumes == InitVolumes /\ [][NextVolumes]_vars

(***************************************************************************)
(* SpecPartitions: _get_partition_stats called on a new object, on texts   *)
(* of up to MaxLines lines                                                 *)
(***************************************************************************)
\* The most lines in one 'vos partinfo' text.
MaxLines == 3

\* "Free space on partition /vicepa: 512 K blocks out of total 1024", a full
\* partition, three letters (no match), more free than total, a total of 0,
\* a percentage midway between two hundredths (137 of 160 is 85.625), and a
\* line that is something else.
PartLines ==
    {PartLine(<<"a">>, <<5, 1, 2>>, <<1, 0, 2, 4>>),
     PartLine(<<"a", "b">>, <<0>>, <<7>>),
     PartLine(<<"a", "b", "c">>, <<1>>, <<8, 0, 0>>),
     PartLine(<<"b">>, <<9>>, <<7>>),
     PartLine(<<"c">>, <<3>>, <<0>>),
     PartLine(<<"d">>, <<2, 3>>, <<1, 6, 0>>),
     NoPartLine}

\* output.split('\n') gives at least one line.
PartTexts ==
    {Failed, NotAscii(<<>>)} \cup {Ok(t) : t \in SeqsUpTo(PartLines, MaxLines) \ {<<>>}}

InitPartitions == InitObject("test")

\* fs._get_partition_stats() on the new object.
TestGetPartitionStats(out) ==
    /\ mpc = "test"
    /\ pc = "idle"
    /\ LET r == _get_partition_stats(self, out)
       IN  /\ self' = r.self
           /\ exc' = r.exc
           /\ pc' = AfterMethod(r.exc, "returned")
    /\ cmdlog' = Issued("vos partinfo", self, out)
    /\ UNCHANGED <<polls, mark, mainvars>>

NextPartitions == \E out \in PartTexts : TestGetPartitionStats(out)

SpecPartitions == InitPartitions /\ [][NextPartitions]_vars

(***************************************************************************)
(* SpecAddresses: get_fs_addresses called for a cell, on outputs of up to  *)
(* MaxAddrLines lines                                                      *)
(***************************************************************************)
\* The most lines in one 'vos listaddrs' output.
MaxAddrLines == 3

\* Two hostnames, an empty line, a line of spaces, a hostname within spaces,
\* and the lines of an output whose lines end in carriage return and line feed.
AddrLines ==
    {<<"afs01", ".", "example", ".", "org">>, <<"afs02">>, <<>>, <<" ", " ">>,
     <<" ", "afs02", " ">>, <<"\r">>, <<"afs02", "\r">>}

AddrTexts ==
    {Failed, NotAscii(<<>>)} \cup {Ok(t) : t \in SeqsUpTo(AddrLines, MaxAddrLines) \ {<<>>}}

TestCell == <<"openstack", ".", "org">>

InitAddresses == InitObject("test")

\* afsmon.get_fs_addresses(cell): what it returns is kept in fs_addrs.
TestGetFsAddresses(out) ==
    /\ mpc = "test"
    /\ LET r == get_fs_addresses(out)
       IN  /\ fs_addrs' = r.fs
           /\ mexc' = r.exc
           /\ mpc' = IF r.exc # None THEN "raised" ELSE "returned"
    /\ cmdlog' = Append(cmdlog, [cmd |-> "vos listaddrs", host |-> TestCell, out |-> out])
    /\ UNCHANGED <<objvars, config, next_addr, fileservers, reported, mret>>

NextAddresses == \E out \in AddrTexts : TestGetFsAddresses(out)

SpecAddresses == InitAddresses /\ [][NextAddresses]_vars

(***************************************************************************)
(* What the properties below speak of                                      *)
(***************************************************************************)
\* The commands of the latest call of get_stats, with their outputs.
PollLog == SubSeq(cmdlog, mark + 1, Len(cmdlog))

Dependent == {"vos partinfo", "rxdebug", "vos listvol"}

\* The latest call of get_stats ran 'bos status' first.
BosRan == Len(PollLog) >= 1 /\ PollLog[1].cmd = "bos status"

\* The output of 'bos status' was read as text.
BosRead == BosRan /\ PollLog[1].out.rc = 0 /\ PollLog[1].out.ascii

Unset(s) ==
    /\ s.restart = None /\ s.uptime = None
    /\ s.calls_waiting = None /\ s.idle_threads = None
    /\ s.partitions = <<>> /\ s.volumes = <<>>

\* C1: when 'bos status' exits non-zero, get_stats ends with status
\* NO_CONNECTION, raises nothing, and issues no other command for the host.
C1_NoConnection ==
    (BosRan /\ PollLog[1].out.rc # 0)
    => /\ pc \in {"table", "returned"}
       /\ exc = None
       /\ self.status = "NO_CONNECTION"
       /\ Len(PollLog) = 1

C1_Witness ==
    /\ BosRan /\ PollLog[1].out.rc # 0
    /\ pc = "returned" /\ self.status = "NO_CONNECTION"

\* C2: a 'bos status' text with "temporarily disabled, currently shutdown"
\* and without "currently running normally" makes get_stats complete, without
\* raising, with the temporarily-disabled member of FileServerStatus.
C2_TemporarilyDisabled ==
    (BosRead /\ PollLog[1].out.text.tempdis /\ PollLog[1].out.text.dis
        /\ ~PollLog[1].out.text.normal)
    => /\ pc \in {"table", "returned"}
       /\ exc = None
       /\ self.status = "TEMPORARY_DISABLED"

\* C3: when get_stats returns on a new object with a status other than
\* NORMAL, restart, uptime, calls_waiting and idle_threads are None and
\* partitions and volumes are empty; and a partition, thread or volume command
\* is issued only after 'bos status' gave NORMAL.
C3_UnsetUnlessNormal ==
    /\ (polls = 1 /\ pc = "returned" /\ self.status # "NORMAL") => Unset(self)
    /\ \A i \in 1..Len(PollLog) :
          PollLog[i].cmd \in Dependent
          => /\ i > 1 /\ BosRead /\ PollLog[1].out.text.normal
             /\ self.status = "NORMAL"

C3_Witness ==
    /\ polls = 1 /\ pc = "returned" /\ self.status = "DISABLED"
    /\ BosRead /\ PollLog[1].out.text.started # None
    /\ Unset(self) /\ Len(PollLog) = 1

\* C9: a text with "currently running normally" and no "last started at
\* <date>" the date pattern matches makes get_stats raise after that one
\* command; get_stats never returns NORMAL with restart or uptime unset.
C9_NormalNeedsRestart ==
    /\ (BosRead /\ PollLog[1].out.text.normal
          /\ (PollLog[1].out.text.started = None
              \/ ~AFS_DATE_REGEX(PollLog[1].out.text.started[1])))
       => (pc = "raised" /\ exc # None /\ Len(PollLog) = 1)
    /\ (pc \in {"table", "returned"} /\ self.status = "NORMAL")
       => (self.restart # None /\ self.uptime # None)

C9_Witness ==
    /\ BosRead /\ PollLog[1].out.text.normal /\ PollLog[1].out.text.started = None
    /\ pc = "raised" /\ exc = Some("AttributeError")
    /\ self.status = "NORMAL" /\ self.restart = None

\* The method get_stats runs for a command raises on this output (what it
\* raises does not depend on the object).
MethodRaises(e) ==
    LET s == FileServerStatsInit(e.host)
    IN  IF e.cmd = "vos partinfo" THEN _get_partition_stats(s, e.out).exc # None
        ELSE IF e.cmd = "rxdebug" THEN _get_calls_waiting(s, e.out).exc # None
        ELSE _get_volumes(s, e.out).exc # None

\* C10: when a partition, thread or volume command exits non-zero or its
\* output makes the parser raise, get_stats raises, issues no later command,
\* and main neither appends the object to fileservers nor runs a reporter.
C10_DependentFailureAborts ==
    \A i \in 1..Len(PollLog) :
        (PollLog[i].cmd \in Dependent /\ MethodRaises(PollLog[i]))
        => /\ i = Len(PollLog)
           /\ pc = "raised" /\ exc # None
           /\ mpc \in {"polling", "raised"}
           /\ mpc = "raised" => mexc = exc
           /\ next_addr <= Len(fs_addrs) /\ fs_addrs[next_addr] = self.hostname
           /\ Len(fileservers) = next_addr - 1
           /\ reported = <<>> /\ mret = None

C10_Witness ==
    /\ mpc = "raised" /\ pc = "raised" /\ exc = Some("CalledProcessError")
    /\ Len(PollLog) = 3 /\ PollLog[3].cmd = "rxdebug" /\ PollLog[3].out.rc # 0
    /\ self.status = "NORMAL" /\ Len(self.partitions) = 1
    /\ Len(fileservers) = 1 /\ next_addr = 2

\* The method of get_stats that issues the command of a log entry.
Method(s, entry) ==
    IF entry.cmd = "bos status" THEN _get_fs_stats(s, entry.out)
    ELSE IF entry.cmd = "vos partinfo" THEN _get_partition_stats(s, entry.out)
    ELSE IF entry.cmd = "rxdebug" THEN _get_calls_waiting(s, entry.out)
    ELSE _get_volumes(s, entry.out)

\* Lines 179-183 on a new FileServerStats whose commands give the outputs of
\* log: the methods in turn, up to one that raises, and 'bos status' alone when
\* it leaves a status other than NORMAL.  The result is [self, exc].
RECURSIVE Replay(_, _, _)

ReplayNext(r, log, i) ==
    IF r.exc # None THEN r
    ELSE IF log[i].cmd = "bos status" /\ AfterFsStats(r.self) = "table" THEN r
    ELSE Replay(r.self, log, i + 1)

Replay(s, log, i) ==
    IF i > Len(log) THEN [self |-> s, exc |-> None]
    ELSE ReplayNext(Method(s, log[i]), log, i)

LatestPollAlone ==
    Replay(get_stats_enter(FileServerStatsInit(self.hostname), self.timestamp[1]),
           PollLog, 1).self

SameAs(alone) ==
    /\ self.partitions = alone.partitions
    /\ self.volumes = alone.volumes
    /\ self.restart = alone.restart
    /\ self.uptime = alone.uptime
    /\ self.calls_waiting = alone.calls_waiting
    /\ self.idle_threads = alone.idle_threads

\* C4: after get_stats is called again on the same object and returns, the
\* object holds what the latest poll alone gives: its partitions and volumes
\* are the records of that poll, and restart, uptime, calls_waiting and
\* idle_threads carry nothing of the earlier poll.
C4_LatestPollOnly == (pc = "returned" /\ polls >= 1) => SameAs(LatestPollAlone)

(***************************************************************************)
(* The volume listing seen from outside the parser                         *)
(***************************************************************************)
\* The text _get_volumes was given (empty when it was given none).
Listing ==
    IF /\ Len(cmdlog) >= 1
       /\ cmdlog[Len(cmdlog)].cmd = "vos listvol"
       /\ check_output(cmdlog[Len(cmdlog)].out) = None
    THEN cmdlog[Len(cmdlog)].out.text
    ELSE <<>>

\* The lines of a text, each with its line feed.
RECURSIVE SplitLines(_, _)
SplitLines(text, i) ==
    IF i > Len(text) THEN <<>>
    ELSE <<SubSeq(text, i, LineEnd(text, i))>> \o SplitLines(text, LineEnd(text, i) + 1)

\* Some lines as a record: how many they are, and their text.
AsRecord(lines) == [lines |-> Len(lines), text |-> Text(lines)]

\* The records among the lines of a listing: each line with "On-line" that
\* is not within the ChunkRest lines after an earlier such line, with the
\* lines after it.
RECURSIVE RecordsOf(_, _)
RecordsOf(lines, i) ==
    IF i > Len(lines) THEN <<>>
    ELSE IF ~Contains(lines[i], OnLine) THEN RecordsOf(lines, i + 1)
    ELSE <<AsRecord(SubSeq(lines, i, Min(i + ChunkRest, Len(lines))))>>
         \o RecordsOf(lines, i + ChunkRest + 1)

TextRecords(text) == RecordsOf(SplitLines(text, 1), 1)

ListingRecords == TextRecords(Listing)

\* The permissions the code knows, and those of a listing.
CodePermissions == {ReadOnlyOrWrite}

AnyPermissions == {ReadOnlyOrWrite, <<Literal(<<"B", "K">>)>>}

HasHeader(rec, permissions) == \E p \in permissions : Header(rec.text, p) # None

TheHeader(rec, permissions) ==
    Header(rec.text, CHOOSE p \in permissions : Header(rec.text, p) # None)[1]

HasQuota(rec) == Search(rec.text, QuotaPattern) # <<>>

TheQuota(rec) == QuotaGroups(rec.text, Search(rec.text, QuotaPattern))[1].quota

HasCreation(rec) == Search(rec.text, CreationPattern) # <<>>

TheCreation(rec) == DateGroups(rec.text, Search(rec.text, CreationPattern))[1].date

\* The record gives the matches the code looks for: the header (with one of
\* these permissions), MaxQuota, and a Creation date the pattern matches.
Yields(rec, permissions) ==
    HasHeader(rec, permissions) /\ HasQuota(rec) /\ HasCreation(rec)

\* ... and the values convert: the quota is not 0, the date is a date.
Converts(rec, permissions) ==
    /\ Yields(rec, permissions)
    /\ IntOf(TheQuota(rec)) # 0
    /\ Strptime(TheCreation(rec)).exc = None

\* A well-formed record: all of its 9 lines, whatever its permission.
IsWellFormed(rec) == rec.lines = ChunkRest + 1 /\ Converts(rec, AnyPermissions)

\* The Volume a record stands for.
VolumeOf(rec) ==
    LET hdr == TheHeader(rec, AnyPermissions)
        used == IntOf(hdr.used)
        quota == IntOf(TheQuota(rec))
    IN  [volume |-> hdr.vol, id |-> hdr.id, perms |-> hdr.perms,
         used |-> used, quota |-> quota,
         percent_used |-> Round2(used, quota),
         creation |-> Strptime(TheCreation(rec)).value]

\* _get_volumes ran on a listing and ended.
Parsed == pc \in {"returned", "raised"} /\ Listing # <<>>

\* Every record of the listing is well-formed.
AllWellFormed(recs) == \A k \in 1..Len(recs) : IsWellFormed(recs[k])

EachStored(recs) ==
    \A k \in 1..Len(recs) : \E j \in 1..Len(self.volumes) : self.volumes[j] = VolumeOf(recs[k])

\* C5: every well-formed record is stored whatever its permission: a BK
\* record, like an RO or RW one, gives a Volume with its perms, its id as the
\* digits of the header, used and quota as integers and the creation time.
C5_EveryPermissionStored ==
    Parsed => LET recs == ListingRecords IN AllWellFormed(recs) => EachStored(recs)

StoredInOrder(recs) ==
    /\ pc = "returned"
    /\ Len(self.volumes) = Len(recs)
    /\ \A k \in 1..Len(recs) : self.volumes[k] = VolumeOf(recs[k])

\* C6: a listing of N well-formed records gives exactly N Volumes, in the
\* order of the listing, each from the lines of its own record.
C6_OneVolumePerRecord ==
    Parsed => LET recs == ListingRecords IN AllWellFormed(recs) => StoredInOrder(recs)

\* The listing ends within its last record.
Truncated ==
    /\ ListingRecords # <<>>
    /\ ListingRecords[Len(ListingRecords)].lines < ChunkRest + 1

\* The records before the k-th are records the code converts.
Reaches(recs, k) == \A j \in 1..(k - 1) : Converts(recs[j], CodePermissions)

\* C7: a listing that ends fewer than 8 lines after a line with
\* "On-line" makes _get_volumes raise and append no Volume for that record,
\* wherever the listing ends within the record.
C7_TruncationRaises ==
    (Parsed /\ Truncated)
    => (pc = "raised" /\ exc # None /\ Len(self.volumes) < Len(ListingRecords))

RaisedAt(recs, k) ==
    /\ pc = "raised" /\ exc # None
    /\ Len(self.volumes) = k - 1
    /\ \A j \in 1..(k - 1) : self.volumes[j] = VolumeOf(recs[j])

\* C8: a record that does not give the header match, the MaxQuota match or
\* the Creation date match makes _get_volumes raise: the record is not
\* skipped, no Volume is appended for it or after it.
C8_NoMatchRaises ==
    Parsed
    => LET recs == ListingRecords
       IN  \A k \in 1..Len(recs) :
              (Reaches(recs, k) /\ ~Yields(recs[k], CodePermissions)) => RaisedAt(recs, k)

C8_Witness ==
    /\ Parsed /\ pc = "raised" /\ exc = Some("AttributeError")
    /\ Len(ListingRecords) = 2 /\ ListingRecords[2].lines = ChunkRest + 1
    /\ HasHeader(ListingRecords[2], CodePermissions)
    /\ HasQuota(ListingRecords[2]) /\ ~HasCreation(ListingRecords[2])
    /\ Len(self.volumes) = 1

(***************************************************************************)
(* Division by zero                                                        *)
(***************************************************************************)
\* The last command issued, when its output was read as text.
LastRead(cmd) ==
    /\ Len(PollLog) >= 1
    /\ PollLog[Len(PollLog)].cmd = cmd
    /\ check_output(PollLog[Len(PollLog)].out) = None

LastText == PollLog[Len(PollLog)].out.text

\* Line i of a 'vos partinfo' text is a partition line.
IsPartLine(text, i) == text[i].k = "part" /\ Len(text[i].letters) \in 1..2

\* ... whose total is 0, and no partition line before it has a total of 0.
FirstZeroTotal(text, i) ==
    /\ IsPartLine(text, i) /\ ToInt(text[i].total) = 0
    /\ \A j \in 1..(i - 1) : IsPartLine(text, j) => ToInt(text[j].total) # 0

\* The k-th record of a listing has the header and a MaxQuota of 0, and the
\* parser comes to it.
ZeroQuotaAt(recs, k) ==
    /\ Reaches(recs, k)
    /\ HasHeader(recs[k], CodePermissions)
    /\ HasQuota(recs[k]) /\ IntOf(TheQuota(recs[k])) = 0

\* A record with a MaxQuota of 0 makes the parser raise.
ZeroQuotaRaises(recs) ==
    \A k \in 1..Len(recs) :
        ZeroQuotaAt(recs, k)
        => /\ pc = "raised" /\ exc = Some("ZeroDivisionError")
           /\ mpc \in {"polling", "raised"} /\ (mpc = "raised" => mexc = exc)
           /\ Len(self.volumes) = k - 1

\* C11: a partition line whose total is 0, and a volume record whose
\* MaxQuota is 0, makes the parser raise (ZeroDivisionError) out of get_stats
\* and out of main; no Partition or Volume is appended for that line or record
\* or after it, and no stored record has a total or a quota of 0, the only
\* way to a percentage that is not a number.
C11_ZeroDivisionRaises ==
    /\ LastRead("vos partinfo")
       => \A i \in 1..Len(LastText) :
             FirstZeroTotal(LastText, i)
             => /\ pc = "raised" /\ exc = Some("ZeroDivisionError")
                /\ mpc \in {"polling", "raised"} /\ (mpc = "raised" => mexc = exc)
                /\ Len(self.partitions)
                      = Cardinality({j \in 1..(i - 1) : IsPartLine(LastText, j)})
    /\ LastRead("vos listvol") => ZeroQuotaRaises(TextRecords(LastText))
    /\ \A j \in 1..Len(self.partitions) : self.partitions[j].total # 0
    /\ \A j \in 1..Len(self.volumes) : self.volumes[j].quota # 0
    /\ \A f \in 1..Len(fileservers) :
          /\ \A j \in 1..Len(fileservers[f].partitions) : fileservers[f].partitions[j].total # 0
          /\ \A j \in 1..Len(fileservers[f].volumes) : fileservers[f].volumes[j].quota # 0

C11_Witness ==
    /\ LastRead("vos listvol") /\ Len(TextRecords(LastText)) = 2
    /\ ZeroQuotaAt(TextRecords(LastText), 2)
    /\ mpc = "raised" /\ mexc = Some("ZeroDivisionError")
    /\ Len(self.volumes) = 1 /\ Len(self.partitions) = 1

(***************************************************************************)
(* Partitions                                                              *)
(***************************************************************************)
\* The indices of the partition lines of a text, and the n-th of them.
PartIndices(text) == {i \in 1..Len(text) : IsPartLine(text, i)}

NthPartIndex(text, n) ==
    CHOOSE i \in PartIndices(text) : Cardinality({j \in PartIndices(text) : j <= i}) = n

\* C12: when _get_partition_stats returns, partitions holds one Partition
\* per line of the shape "Free space on partition /vicep<1-2 letters>: <free>
\* K blocks out of total <total>", in the order of the lines, and nothing for
\* any other line; each has the free and total of its line as integers and
\* used = total - free, so used + free = total.
C12_OnePartitionPerLine ==
    (LastRead("vos partinfo") /\ pc = "returned")
    => /\ Len(self.partitions) = Cardinality(PartIndices(LastText))
       /\ \A n \in 1..Len(self.partitions) :
             LET line == LastText[NthPartIndex(LastText, n)]
                 p == self.partitions[n]
             IN  /\ p.partition = <<"vicep">> \o line.letters
                 /\ p.free = ToInt(line.free)
                 /\ p.total = ToInt(line.total)
                 /\ p.used = p.total - p.free
                 /\ p.used + p.free = p.total

C12_Witness ==
    /\ LastRead("vos partinfo") /\ pc = "returned"
    /\ Len(LastText) = 3 /\ PartIndices(LastText) = {1, 3}
    /\ LastText[2].k = "part"
    /\ Len(self.partitions) = 2
    /\ self.partitions[1].partition = <<"vicep", "a", "b">>
    /\ self.partitions[2].used = 512

\* C13: every Partition appended has 0 <= percent_used <= 100 and
\* 0 <= used <= total, whatever partition line it came from, a line with
\* more free than total included.
C13_PercentInRange ==
    \A n \in 1..Len(self.partitions) :
        /\ self.partitions[n].percent_used >= 0
        /\ self.partitions[n].percent_used <= 10000
        /\ self.partitions[n].used >= 0
        /\ self.partitions[n].used <= self.partitions[n].total

(***************************************************************************)
(* Addresses                                                               *)
(***************************************************************************)
\* 'vos listaddrs' was run (it is the first command of a run, when it runs).
ListaddrsRan == Len(cmdlog) >= 1 /\ cmdlog[1].cmd = "vos listaddrs"

\* A line with nothing but white space.
IsBlank(line) == \A i \in 1..Len(line) : line[i] \in Whitespace

NonBlankIndices(text) == {i \in 1..Len(text) : ~IsBlank(text[i])}

NthNonBlank(text, n) ==
    text[CHOOSE i \in NonBlankIndices(text) :
            Cardinality({j \in NonBlankIndices(text) : j <= i}) = n]

\* C14: get_fs_addresses returns the empty list, raising nothing, when 'vos
\* listaddrs' exits non-zero; when the output is read it returns the lines
\* that are not blank, one entry per line, as they are, in the order of the
\* output, a line that comes twice coming twice.
C14_AddressesAreTheLines ==
    (ListaddrsRan /\ mpc \in {"returned", "raised"})
    => /\ cmdlog[1].out.rc # 0 => (mpc = "returned" /\ mexc = None /\ fs_addrs = <<>>)
       /\ check_output(cmdlog[1].out) = None
          => /\ mpc = "returned" /\ mexc = None
             /\ Len(fs_addrs) = Cardinality(NonBlankIndices(cmdlog[1].out.text))
             /\ \A n \in 1..Len(fs_addrs) : fs_addrs[n] = NthNonBlank(cmdlog[1].out.text, n)

C14_Witness ==
    /\ ListaddrsRan /\ mpc = "returned" /\ check_output(cmdlog[1].out) = None
    /\ Len(cmdlog[1].out.text) = 3 /\ IsBlank(cmdlog[1].out.text[2])
    /\ fs_addrs = <<<<"afs02">>, <<"afs02">>>>

\* The configuration names no fileserver, and the cell gives none: no cell
\* is set, or 'vos listaddrs' exited non-zero or wrote blank lines only.
NoAddress ==
    /\ config.command # None /\ mpc # "start"
    /\ config.fileservers = None \/ config.fileservers = Some(<<>>)
    /\ IF config.cell = None \/ config.cell = Some(<<>>)
       THEN ~ListaddrsRan
       ELSE /\ ListaddrsRan
            /\ \/ cmdlog[1].out.rc # 0
               \/ /\ check_output(cmdlog[1].out) = None
                  /\ NonBlankIndices(cmdlog[1].out.text) = {}

\* C15: when neither the cell nor the configured list gives an address (the
\* cell command having failed included), main raises ValueError before any
\* fileserver is polled: no command about a host is ever issued, no object is
\* made, and no subcommand runs.
C15_NoFileserversIsFatal ==
    NoAddress
    => /\ mpc = "raised" /\ mexc = Some("ValueError")
       /\ \A i \in 1..Len(cmdlog) : cmdlog[i].cmd = "vos listaddrs"
       /\ Len(cmdlog) <= 1
       /\ polls = 0 /\ pc = "idle"
       /\ fs_addrs = <<>> /\ fileservers = <<>>
       /\ reported = <<>> /\ mret = None

C15_Witness ==
    /\ NoAddress /\ ListaddrsRan /\ cmdlog[1].out.rc # 0
    /\ config.command = Some("statsd") /\ config.fileservers = Some(<<>>)
    /\ mpc = "raised" /\ mexc = Some("ValueError") /\ Len(cmdlog) = 1

(***************************************************************************)
(* The order of the commands                                               *)
(***************************************************************************)
\* The commands of one poll, in the order get_stats runs them.
PollOrder == <<"bos status", "vos partinfo", "rxdebug", "vos listvol">>

\* The 'bos status' commands among the first i commands of the run: the
\* polls begun by then.
BosUpTo(i) == {j \in 1..i : cmdlog[j].cmd = "bos status"}

\* The index of the 'bos status' that began the poll command i belongs to.
PollStart(i) == CHOOSE j \in BosUpTo(i) : \A h \in BosUpTo(i) : h <= j

\* The commands issued for the k-th address.
CommandsOf(k) ==
    {i \in 1..Len(cmdlog) : cmdlog[i].cmd # "vos listaddrs" /\ Cardinality(BosUpTo(i)) = k}

\* The addresses the cell gave and those of the configuration.
CellAddresses ==
    IF ListaddrsRan /\ check_output(cmdlog[1].out) = None
    THEN [n \in 1..Cardinality(NonBlankIndices(cmdlog[1].out.text))
            |-> NthNonBlank(cmdlog[1].out.text, n)]
    ELSE <<>>

ConfiguredAddresses == IF config.fileservers = None THEN <<>> ELSE config.fileservers[1]

\* C16: every command about a host belongs to the poll its 'bos status'
\* began; within a poll the commands are 'bos status', 'vos partinfo',
\* 'rxdebug', 'vos listvol' in that order, each once at most, all for the
\* address of that poll, the k-th poll being that of the k-th address; the
\* later three are there only for a NORMAL server, and all three when it
\* returned NORMAL.  fileservers holds the objects in the order of the
\* addresses, which are the cell's first and then the configured ones.
C16_SequentialOnePass ==
    /\ \A i \in 1..Len(cmdlog) :
          cmdlog[i].cmd # "vos listaddrs"
          => /\ BosUpTo(i) # {}
             /\ i - PollStart(i) + 1 <= Len(PollOrder)
             /\ cmdlog[i].cmd = PollOrder[i - PollStart(i) + 1]
             /\ Cardinality(BosUpTo(i)) <= Len(fs_addrs)
             /\ cmdlog[i].host = fs_addrs[Cardinality(BosUpTo(i))]
    /\ \A i \in 2..Len(cmdlog) : cmdlog[i].cmd # "vos listaddrs"
    /\ Len(fileservers) <= Len(fs_addrs)
    /\ \A k \in 1..Len(fileservers) :
          /\ fileservers[k].hostname = fs_addrs[k]
          /\ Cardinality(CommandsOf(k))
                = IF fileservers[k].status = "NORMAL" THEN Len(PollOrder) ELSE 1
    /\ mpc \in {"loop", "returned"}
       => Cardinality(BosUpTo(Len(cmdlog))) = Len(fileservers)
    /\ mpc \in {"polling", "raised"}
       => Cardinality(BosUpTo(Len(cmdlog))) \in {Len(fileservers), Len(fileservers) + 1}
    /\ mpc \notin {"start", "test", "caller"} /\ fs_addrs # <<>>
       => fs_addrs = CellAddresses \o ConfiguredAddresses

C16_Witness ==
    /\ mpc = "returned" /\ Len(fileservers) = 2
    /\ CellAddresses = <<<<"afs02">>>>
    /\ ConfiguredAddresses = <<<<"afs01", ".", "example", ".", "org">>>>
    /\ fileservers[1].hostname = <<"afs02">> /\ fileservers[1].status = "NORMAL"
    /\ fileservers[2].status = "NO_CONNECTION"
    /\ Len(cmdlog) = 6 /\ cmdlog[5].cmd = "vos listvol" /\ cmdlog[6].cmd = "bos status"

(***************************************************************************)
(* SpecStatsd: cmd_statsd called on an AFSMonCmd whose config and          *)
(* fileservers were set, as test_statsd calls it, on up to MaxServers      *)
(* fileservers                                                             *)
(***************************************************************************)
\* The most fileservers cmd_statsd is given.
MaxServers == 2

\* Lines 185-209 after the methods: the table is built when none of them
\* raised.
TableBuilt(r) == IF r.exc # None THEN r.self ELSE [r.self EXCEPT !.table = Some(Table(r.self))]

\* The commands of get_stats for a host, in order, with these outputs.
PollOf(host, outs) ==
    [i \in 1..Len(outs) |-> [cmd |-> PollOrder[i], host |-> host, out |-> outs[i]]]

\* The object get_stats leaves for a host after these outputs.
Polled(host, outs) ==
    TableBuilt(Replay(get_stats_enter(FileServerStatsInit(host),
                                      CHOOSE t \in RunNowValues : TRUE),
                      PollOf(host, outs), 1))

\* A NORMAL server with a partition, both counters and a volume; one whose
\* outputs gave no partition, counter or volume; servers that are not NORMAL;
\* one that is not NORMAL with the fields of a NORMAL one set on it; and an
\* object get_stats was not called on.
Servers ==
    LET full == Polled(Hosts[1],
                       <<Ok(BosText(TRUE, FALSE, FALSE, Some(DateA))),
                         Ok(<<PartLine(<<"a">>, <<5, 1, 2>>, <<1, 0, 2, 4>>)>>),
                         Ok(<<RxLine(Some(<<0>>), None), RxLine(None, Some(<<2, 5, 0>>))>>),
                         Ok(Text(DocsBackup("RW") \o VolumeGap))>>)
    IN  {full,
         Polled(Hosts[2], <<Ok(BosText(TRUE, FALSE, FALSE, Some(DateB))), Ok(<<NoPartLine>>),
                            Ok(<<RxLine(None, None)>>), Ok(OtherLine(FALSE))>>),
         Polled(Hosts[3], <<Ok(BosText(FALSE, FALSE, TRUE, None))>>),
         Polled(Hosts[1], <<BosFailed>>),
         Polled(Hosts[2], <<Ok(BosText(FALSE, FALSE, FALSE, None))>>),
         [full EXCEPT !.status = "DISABLED"],
         FileServerStatsInit(Hosts[3])}

\* The [statsd] section: absent, with both options, with one, with none.
StatsdSections ==
    {[section |-> FALSE, host |-> None, port |-> None],
     [section |-> TRUE, host |-> Some("statsd.example.org"), port |-> Some("8125")],
     [section |-> TRUE, host |-> Some("statsd.example.org"), port |-> None],
     [section |-> TRUE, host |-> None, port |-> Some("8125")],
     [section |-> TRUE, host |-> None, port |-> None]}

\* STATSD_HOST and STATSD_PORT: not set, set, set to the empty string; TZ not
\* set, "EST5", "CET-1".
StatsdEnvironments ==
    {[STATSD_HOST |-> None, STATSD_PORT |-> None, TZ |-> None],
     [STATSD_HOST |-> Some("graphite.example.org"), STATSD_PORT |-> Some("9125"),
      TZ |-> Some(5)],
     [STATSD_HOST |-> Some(""), STATSD_PORT |-> Some("9125"), TZ |-> Some(-1)]}

InitStatsd ==
    /\ self = FileServerStatsInit(<<>>)
    /\ pc = "idle"
    /\ exc = None
    /\ polls = 0
    /\ mark = 0
    /\ cmdlog = <<>>
    /\ mpc = "test"
    /\ config \in {[command |-> Some("statsd"), cell |-> None, fileservers |-> None,
                     statsd |-> c, env |-> e] : c \in StatsdSections, e \in StatsdEnvironments}
    /\ fs_addrs = <<>>
    /\ next_addr = 1
    /\ fileservers \in SeqsUpTo(Servers, MaxServers)
    /\ reported = <<>>
    /\ mret = None
    /\ mexc = None

\* cmd.cmd_statsd()
TestCmdStatsd ==
    /\ mpc = "test"
    /\ LET r == cmd_statsd(config.statsd, config.env, fileservers)
       IN  /\ reported' = r.out
           /\ mret' = r.ret
           /\ mexc' = r.exc
           /\ mpc' = IF r.exc # None THEN "raised" ELSE "returned"
    /\ UNCHANGED <<objvars, cmdlog, config, fs_addrs, next_addr, fileservers>>

NextStatsd == TestCmdStatsd

SpecStatsd == InitStatsd /\ [][NextStatsd]_vars

(***************************************************************************)
(* The gauges                                                              *)
(***************************************************************************)
\* cmd_statsd made its client: reported holds the client's arguments and,
\* after them, the gauges put in the pipeline.
ClientMade == mpc = "returned" /\ config.command = Some("statsd") /\ reported # <<>>

Sent == Tail(reported)

Underscored(str) == [i \in 1..Len(str) |-> IF str[i] = "." THEN "_" ELSE str[i]]

GaugeName(f, rest) == <<"afs", ".">> \o Underscored(f.hostname) \o <<".">> \o rest

\* The seconds from 1970-01-01 00:00:00 UTC to the time a clock in the zone
\* shows as dt.
EpochIn(dt, tz) ==
    (DaysFromCivil(dt.year, dt.month, dt.day) * 24 + dt.hour
        + (IF tz = None THEN 0 ELSE tz[1])) * 3600 + dt.minute * 60 + dt.second

\* The gauges of one fileserver, and of those before the k-th.
GaugeCount(f) ==
    IF f.status = "NORMAL" THEN 2 + 3 * Len(f.partitions) + 3 * Len(f.volumes) ELSE 0

RECURSIVE GaugesBefore(_)
GaugesBefore(k) == IF k = 1 THEN 0 ELSE GaugesBefore(k - 1) + GaugeCount(fileservers[k - 1])

\* C17: cmd_statsd puts in the pipeline the gauges of the NORMAL
\* fileservers and no other: for each, in the order of fileservers,
\* afs.<host>.idle_threads and .calls_waiting with the values of the object,
\* afs.<host>.part.<partition>.used, .free, .total for each partition and
\* afs.<host>.vol.<volume>.used, .quota, .creation for each volume, dots of
\* the host and volume names replaced by underscores, the creation gauge
\* being the seconds since the epoch of the creation time read in the zone of
\* TZ; a fileserver with any other status adds nothing, whatever its fields
\* hold.
C17_GaugesOfNormalServers ==
    ClientMade
    => /\ Len(Sent) = GaugesBefore(Len(fileservers) + 1)
       /\ \A k \in 1..Len(fileservers) :
             fileservers[k].status = "NORMAL"
             => LET f == fileservers[k]
                    o == GaugesBefore(k)
                    po == o + 2
                    vo == po + 3 * Len(f.partitions)
                IN  /\ Sent[o + 1] = [name |-> GaugeName(f, <<"idle_threads">>),
                                      value |-> f.idle_threads]
                    /\ Sent[o + 2] = [name |-> GaugeName(f, <<"calls_waiting">>),
                                      value |-> f.calls_waiting]
                    /\ \A j \in 1..Len(f.partitions) :
                          LET p == f.partitions[j]
                              n == <<"part", ".">> \o p.partition \o <<".">>
                          IN  /\ Sent[po + 3 * (j - 1) + 1]
                                   = [name |-> GaugeName(f, n \o <<"used">>), value |-> Some(p.used)]
                              /\ Sent[po + 3 * (j - 1) + 2]
                                   = [name |-> GaugeName(f, n \o <<"free">>), value |-> Some(p.free)]
                              /\ Sent[po + 3 * (j - 1) + 3]
                                   = [name |-> GaugeName(f, n \o <<"total">>), value |-> Some(p.total)]
                    /\ \A j \in 1..Len(f.volumes) :
                          LET v == f.volumes[j]
                              n == <<"vol", ".">> \o Underscored(v.volume) \o <<".">>
                          IN  /\ Sent[vo + 3 * (j - 1) + 1]
                                   = [name |-> GaugeName(f, n \o <<"used">>), value |-> Some(v.used)]
                              /\ Sent[vo + 3 * (j - 1) + 2]
                                   = [name |-> GaugeName(f, n \o <<"quota">>), value |-> Some(v.quota)]
                              /\ Sent[vo + 3 * (j - 1) + 3]
                                   = [name |-> GaugeName(f, n \o <<"creation">>),
                                      value |-> Some(EpochIn(v.creation, config.env.TZ))]

C17_Witness ==
    /\ ClientMade /\ Len(fileservers) = 2
    /\ fileservers[1].status = "DISABLED" /\ fileservers[1].partitions # <<>>
    /\ fileservers[2].status = "NORMAL" /\ fileservers[2].volumes # <<>>
    /\ Len(Sent) = 8
    /\ Sent[1] = [name |-> <<"afs", ".", "afs01", "_", "example", "_", "org", ".", "idle_threads">>,
                  value |-> Some(250)]
    /\ Sent[6].name = <<"afs", ".", "afs01", "_", "example", "_", "org", ".", "vol", ".",
                        "d", "o", "c", "s", "_", "b", "a", "c", "k", "u", "p", ".", "used">>
    /\ config.env.TZ = Some(5)
    /\ Sent[8] = [name |-> <<"afs", ".", "afs01", "_", "example", "_", "org", ".", "vol", ".",
                             "d", "o", "c", "s", "_", "b", "a", "c", "k", "u", "p", ".",
                             "creation">>,
                  value |-> Some(1538523954)]

\* get_stats gave every fileserver a status, as it has when main comes to the
\* subcommand.
AllPolled == \A k \in 1..Len(fileservers) : fileservers[k].status # "<unset>"

\* A setting of the environment that is set: os.getenv gives a string that
\* is not empty.
EnvSet(x) == x # None /\ x # Some("")

\* C18: whatever the [statsd] section holds (absent, both options, one, or
\* none), cmd_statsd raises nothing, makes its client with the host and port
\* of the environment when set, else of the section when there, else the
\* defaults of StatsClient, and sends the gauges.
C18_AnyStatsdSection ==
    (mpc \in {"returned", "raised"} /\ config.command = Some("statsd") /\ AllPolled)
    => /\ mpc = "returned" /\ mexc = None
       /\ reported # <<>>
       /\ reported[1].host = IF EnvSet(config.env.STATSD_HOST) THEN config.env.STATSD_HOST
                             ELSE config.statsd.host
       /\ reported[1].port = IF EnvSet(config.env.STATSD_PORT) THEN config.env.STATSD_PORT
                             ELSE config.statsd.port
       /\ Len(Sent) = GaugesBefore(Len(fileservers) + 1)

====
